---------------------------- MODULE Spec2Model ----------------------------
(***************************************************************************)
(* Model of the event clustering engine of market-alert-bot                *)
(* (src/clustering.py, ClusteringEngine.cluster_markets and the text       *)
(* helpers it calls).                                                      *)
(*                                                                         *)
(* Texts are TLA+ strings and are processed character by character, the    *)
(* way the regular expressions of the source process them.  The alphabet   *)
(* is ASCII; the only whitespace that occurs in a text is the blank (the   *)
(* representative text is built with " ".join).  None and the empty string *)
(* are both modelled by "": the source only ever tests these fields for    *)
(* truthiness.                                                             *)
(***************************************************************************)
EXTENDS Integers, Sequences, FiniteSets, TLC

(***************************************************************************)
(* Characters                                                              *)
(***************************************************************************)
UpperStr == "ABCDEFGHIJKLMNOPQRSTUVWXYZ"
LowerStr == "abcdefghijklmnopqrstuvwxyz"
DigitStr == "0123456789"
\* the characters of [0-9_a-z] in code point order (used by sorted() on
\* lower-cased \w+ tokens)
OrdStr == "0123456789_abcdefghijklmnopqrstuvwxyz"

Ch(s, i) == SubSeq(s, i, i)
CharsOf(s) == {Ch(s, i) : i \in 1..Len(s)}

UpperChars == CharsOf(UpperStr)
LowerChars == CharsOf(LowerStr)
DigitChars == CharsOf(DigitStr)
\* \w
WordChars == UpperChars \cup LowerChars \cup DigitChars \cup {"_"}
\* \s
SpaceChars == {" "}
\* [a-z0-9\s]
CleanChars == LowerChars \cup DigitChars \cup SpaceChars

IndexIn(str, c) == CHOOSE i \in 1..Len(str) : Ch(str, i) = c
LowerCh(c) == IF c \in UpperChars THEN Ch(LowerStr, IndexIn(UpperStr, c)) ELSE c

\* the concatenation of the strings f[lo], ..., f[hi]
RECURSIVE Concat(_, _, _)
Concat(f, lo, hi) ==
    IF lo > hi THEN ""
    ELSE IF lo = hi THEN f[lo]
    ELSE Concat(f, lo, (lo + hi) \div 2) \o Concat(f, (lo + hi) \div 2 + 1, hi)

\* str.lower()
Lower(s) == Concat([i \in 1..Len(s) |-> LowerCh(Ch(s, i))], 1, Len(s))

\* is the character at position i of s a \w character (positions outside
\* the string are not)
IsWordAt(s, i) == i >= 1 /\ i <= Len(s) /\ Ch(s, i) \in WordChars
\* \b just before position i
BoundaryAt(s, i) == IsWordAt(s, i - 1) # IsWordAt(s, i)

\* last position of the run of characters of set that starts at i
RECURSIVE RunEnd(_, _, _)
RunEnd(s, set, i) ==
    IF i < Len(s) /\ Ch(s, i + 1) \in set THEN RunEnd(s, set, i + 1) ELSE i

\* last position of the run of characters not in set that starts at i
RECURSIVE GapEnd(_, _, _)
GapEnd(s, set, i) ==
    IF i < Len(s) /\ Ch(s, i + 1) \notin set THEN GapEnd(s, set, i + 1) ELSE i

\* the elements of a set of numbers in increasing order
Ascending(S) ==
    [k \in 1..Cardinality(S) |-> CHOOSE x \in S : Cardinality({y \in S : y <= x}) = k]

\* the maximal runs of characters that are in the set (inside) or not in it,
\* left to right; a run starts where the character before is of the other kind
RunStartsAt(s, set, inside, i) ==
    /\ (Ch(s, i) \in set) = inside
    /\ (i = 1 \/ (Ch(s, i - 1) \in set) # inside)

RunsAt(s, set, inside, starts) ==
    [k \in 1..Len(starts) |->
        SubSeq(s, starts[k], IF inside THEN RunEnd(s, set, starts[k])
                             ELSE GapEnd(s, set, starts[k]))]

Runs(s, set, inside) ==
    RunsAt(s, set, inside,
           Ascending({i \in 1..Len(s) : RunStartsAt(s, set, inside, i)}))

\* str.split(): the maximal runs of non-whitespace
Split(s) == Runs(s, SpaceChars, FALSE)
\* re.findall(r'\b\w+\b', s): the maximal runs of \w
FindWords(s) == Runs(s, WordChars, TRUE)

\* Python's comparison of two strings over [0-9_a-z]
RECURSIVE StrLessFrom(_, _, _)
StrLessFrom(a, b, i) ==
    IF i > Len(a) THEN i <= Len(b)
    ELSE IF i > Len(b) THEN FALSE
    ELSE IF Ch(a, i) = Ch(b, i) THEN StrLessFrom(a, b, i + 1)
    ELSE IndexIn(OrdStr, Ch(a, i)) < IndexIn(OrdStr, Ch(b, i))
StrLess(a, b) == StrLessFrom(a, b, 1)

\* sep.join(list)
RECURSIVE Join(_, _)
Join(sep, list) ==
    IF list = <<>> THEN ""
    ELSE IF Len(list) = 1 THEN list[1]
    ELSE list[1] \o sep \o Join(sep, Tail(list))

SeqRange(list) == {list[i] : i \in 1..Len(list)}

STOP_WORDS == {
    "will", "be", "is", "are", "was", "were", "been", "being",
    "have", "has", "had", "do", "does", "did", "doing",
    "can", "could", "would", "should", "may", "might", "must",
    "get", "got", "make", "made", "go", "going", "gone",
    "win", "wins", "won", "lose", "lost", "beat", "defeat",
    "become", "becomes", "happen", "happens",
    "the", "a", "an", "this", "that", "these", "those",
    "i", "you", "he", "she", "it", "we", "they",
    "my", "your", "his", "her", "its", "our", "their",
    "who", "what", "which", "where", "when", "why", "how",
    "in", "on", "at", "to", "for", "of", "with", "by",
    "from", "up", "down", "out", "off", "over", "under",
    "about", "into", "through", "during", "before", "after",
    "above", "below", "between", "against", "until", "unless",
    "and", "or", "but", "if", "then", "than", "so", "as",
    "next", "first", "last", "new", "old", "best", "top",
    "most", "more", "any", "all", "some", "other", "each",
    "market", "prediction", "odds", "bet", "betting", "price",
    "yes", "no", "winner", "lead", "leading",
    "january", "february", "march", "april", "june",
    "july", "august", "september", "october", "november", "december",
    "monday", "tuesday", "wednesday", "thursday", "friday", "saturday", "sunday",
    "today", "tomorrow", "yesterday", "week", "month", "year",
    "end", "start", "begin", "beginning", "ending" }

\* YEAR_PATTERN = \b20\d{2}\b matches at position i
YearAt(s, i) ==
    /\ i + 3 <= Len(s)
    /\ Ch(s, i) = "2"
    /\ Ch(s, i + 1) = "0"
    /\ Ch(s, i + 2) \in DigitChars
    /\ Ch(s, i + 3) \in DigitChars
    /\ BoundaryAt(s, i)
    /\ BoundaryAt(s, i + 4)

\* YEAR_PATTERN.sub('', s): every match is deleted.  A match is a whole
\* word of four digits, so no two matches overlap and the characters deleted
\* are those of the positions i..i+3 of the matches.
InYear(s, i) == \E k \in (i - 3)..i : k >= 1 /\ YearAt(s, k)

YEAR_PATTERN_sub(s) ==
    Concat([i \in 1..Len(s) |-> IF InYear(s, i) THEN "" ELSE Ch(s, i)], 1, Len(s))

(***************************************************************************)
(* Key extraction: ClusteringEngine._generate_cluster_keys, on the         *)
(* representative text of the cluster.                                     *)
(***************************************************************************)

\* end of [A-Z][a-z]+ matched greedily at position i, 0 when it does not match
CapWordEnd(s, i) ==
    IF i >= 1 /\ i < Len(s) /\ Ch(s, i) \in UpperChars /\ Ch(s, i + 1) \in LowerChars
    THEN RunEnd(s, LowerChars, i + 1)
    ELSE 0

\* the position after the \s+ that starts at j + 1, 0 when no \s is there
AfterSpaces(s, j) ==
    IF j < Len(s) /\ Ch(s, j + 1) \in SpaceChars
    THEN RunEnd(s, SpaceChars, j + 1) + 1
    ELSE 0

\* a or, when a is the failure value, b
OrElse(a, b, failure) == IF a # failure THEN a ELSE b

\* (?:\s+[A-Z][a-z]+)*\b after a capitalized word that ends at j: the end of
\* the match, 0 when there is none.  The repetition is greedy, so one more
\* iteration (ending at e) is tried first and given up when what follows
\* cannot match.  Giving back part of a greedy [a-z]+ or \s+ never helps: the
\* character then following is a lower-case letter (neither \s nor \b) or a
\* blank.
RECURSIVE ProperChain(_, _)
ProperChainVia(s, j, e) ==
    OrElse(IF e = 0 THEN 0 ELSE ProperChain(s, e),
           IF BoundaryAt(s, j + 1) THEN j ELSE 0,
           0)
ProperChain(s, j) == ProperChainVia(s, j, CapWordEnd(s, AfterSpaces(s, j)))

\* end of a match of \b([A-Z][a-z]+(?:\s+[A-Z][a-z]+)*)\b at position i
ProperEnd(s, i) ==
    IF BoundaryAt(s, i) /\ CapWordEnd(s, i) # 0
    THEN ProperChain(s, CapWordEnd(s, i))
    ELSE 0

\* re.findall of the proper noun pattern: the matches found scanning left to
\* right, the scan going on after each match.  A match runs through every
\* capitalized word it can reach, so a position where the pattern matches is
\* skipped by the scan exactly when a match at an earlier position covers it.
ProperMatches(s, starts) ==
    [k \in 1..Len(starts) |-> SubSeq(s, starts[k], ProperEnd(s, starts[k]))]

FindProper(s) ==
    ProperMatches(s, Ascending({i \in 1..Len(s) :
                                  /\ ProperEnd(s, i) # 0
                                  /\ \A k \in 1..(i - 1) : ProperEnd(s, k) < i}))

\* p.replace(' ', '_')
ReplaceBlanks(s) ==
    Concat([i \in 1..Len(s) |-> IF Ch(s, i) = " " THEN "_" ELSE Ch(s, i)], 1, Len(s))

\* re.sub(r'[^a-z0-9\s]', ' ', s)
Clean(s) ==
    Concat([i \in 1..Len(s) |-> IF Ch(s, i) \in CleanChars THEN Ch(s, i) ELSE " "],
           1, Len(s))

\* the list comprehensions of the source
\* [x for x in list if len(x) > n]
LongerThan(list, n) == SelectSeq(list, LAMBDA w : Len(w) > n)

\* [x for x in list if x not in self.STOP_WORDS]
NotStopWords(list) == SelectSeq(list, LAMBDA w : w \notin STOP_WORDS)

\* [p.lower().replace(' ', '_') for p in list]
LowerUnderscore(list) == [i \in 1..Len(list) |-> ReplaceBlanks(Lower(list[i]))]

\* max(list, key=len): the first element of maximal length
MaxByLen(list) ==
    list[CHOOSE i \in 1..Len(list) :
           /\ \A j \in 1..Len(list) : Len(list[j]) <= Len(list[i])
           /\ \A j \in 1..(i - 1) : Len(list[j]) < Len(list[i])]

\* the alternatives of (?:vs\.?|versus|v\.?|@) in the order the matcher tries
\* them (an optional \. is tried present first)
VsSeparators == <<"vs.", "vs", "versus", "v.", "v", "@">>

\* (\w+)\s+(?:vs\.?|versus|v\.?|@)\s+(\w+), re.IGNORECASE, matched at
\* position i with the given separator: <<group 1, group 2>>, <<>> when it
\* does not match.  The first \w+ ends at j, the separator starts at k, the
\* second \w+ starts at q.
VsSecond(s, i, j, q) ==
    IF q # 0 /\ IsWordAt(s, q)
    THEN <<SubSeq(s, i, j), SubSeq(s, q, RunEnd(s, WordChars, q))>>
    ELSE <<>>

VsAtSeparator(s, i, j, k, sep) ==
    IF k # 0 /\ k + Len(sep) <= Len(s) /\ Lower(SubSeq(s, k, k + Len(sep) - 1)) = sep
    THEN VsSecond(s, i, j, AfterSpaces(s, k + Len(sep) - 1))
    ELSE <<>>

VsAfterWord(s, i, j, sep) == VsAtSeparator(s, i, j, AfterSpaces(s, j), sep)

VsMatchWith(s, i, sep) ==
    IF IsWordAt(s, i) THEN VsAfterWord(s, i, RunEnd(s, WordChars, i), sep) ELSE <<>>

\* the first alternative, from the n-th on, with which the pattern matches at i
RECURSIVE VsMatchFrom(_, _, _)
VsMatchFrom(s, i, n) ==
    IF n > Len(VsSeparators) THEN <<>>
    ELSE OrElse(VsMatchWith(s, i, VsSeparators[n]), VsMatchFrom(s, i, n + 1), <<>>)
VsMatchAt(s, i) == VsMatchFrom(s, i, 1)

\* re.search: the leftmost match
VsLeftmost(s, starts) == IF starts = <<>> THEN <<>> ELSE VsMatchAt(s, starts[1])

VsSearch(s) == VsLeftmost(s, Ascending({i \in 1..Len(s) : VsMatchAt(s, i) # <<>>}))

\* the two teams in the order of the text
SortedPair_AsMatched(a, b) == <<a, b>>

\* sorted([a, b])
SortedPair(a, b) == IF StrLess(b, a) THEN <<b, a>> ELSE <<a, b>>

\* Key 1: proper nouns
LongestKey(longest) == IF Len(longest) > 4 THEN <<longest>> ELSE <<>>

ComboKey(proper_nouns) ==
    IF Len(proper_nouns) >= 2
    THEN <<proper_nouns[1] \o "_" \o proper_nouns[2]>>
    ELSE <<>>

ProperNounKeysOf(proper_nouns) ==
    IF proper_nouns = <<>> THEN <<>>
    ELSE LongestKey(MaxByLen(proper_nouns)) \o ComboKey(proper_nouns)

\* the proper nouns, after the two filters
ProperNouns(text) == NotStopWords(LowerUnderscore(LongerThan(FindProper(text), 3)))

ProperNounKeys(text) == ProperNounKeysOf(ProperNouns(text))

\* Key 2: significant words
FirstThree(list) == SubSeq(list, 1, IF Len(list) < 3 THEN Len(list) ELSE 3)

SpecificWordKey(specific_words) ==
    IF Len(specific_words) >= 2 THEN <<Join("_", FirstThree(specific_words))>> ELSE <<>>

\* the first three words, whatever their length
SignificantWordKeys_AnyLength(keys, words) ==
    IF keys = <<>> /\ Len(words) >= 3 /\ Len(LongerThan(words, 3)) >= 2
    THEN <<Join("_", FirstThree(words))>> ELSE <<>>

SignificantWordKeys(keys, words) ==
    IF keys = <<>> /\ Len(words) >= 3 THEN SpecificWordKey(LongerThan(words, 3)) ELSE <<>>

\* Key 3: team vs team pattern
VsKeyOf(team1, team2) ==
    IF team1 \notin STOP_WORDS /\ team2 \notin STOP_WORDS
    THEN <<"vs_" \o Join("_", SortedPair(team1, team2))>>
    ELSE <<>>

VsKeysOf(vs_match) ==
    IF vs_match # <<>> THEN VsKeyOf(Lower(vs_match[1]), Lower(vs_match[2])) ELSE <<>>

VsKeys(text) == VsKeysOf(VsSearch(text))

\* words = [w for w in text_clean.split() if w not in STOP_WORDS and len(w) > 2]
KeyWords(text) == LongerThan(NotStopWords(Split(Clean(Lower(text)))), 2)

\* the keys in the order the source appends them, text being the
\* representative text without its years
KeysAfter(keys1, text) == keys1 \o SignificantWordKeys(keys1, KeyWords(text)) \o VsKeys(text)

KeysOfStripped(text) == KeysAfter(ProperNounKeys(text), text)

KeysOfText(rep) == KeysOfStripped(YEAR_PATTERN_sub(rep))

(***************************************************************************)
(* Similarity: the text part of ClusteringEngine._clusters_are_related.    *)
(***************************************************************************)
SimilarityThresholdPct == 35

\* set(w for w in re.findall(r'\b\w+\b', t) if w not in STOP_WORDS and len(w) > 3)
\* of the lower-cased text without its years
SimilarityWords(rep) ==
    SeqRange(LongerThan(NotStopWords(FindWords(YEAR_PATTERN_sub(Lower(rep)))), 3))

\* any common word makes two texts similar
Jaccard_AnyOverlap(words1, words2) == words1 \cap words2 # {}

\* intersection / union >= 0.35, both operands being small integers
Jaccard(words1, words2) ==
    IF words1 = {} \/ words2 = {} THEN FALSE
    ELSE Cardinality(words1 \cap words2) * 100
            >= SimilarityThresholdPct * Cardinality(words1 \cup words2)

TextsAreSimilar(rep1, rep2) == Jaccard(SimilarityWords(rep1), SimilarityWords(rep2))

(***************************************************************************)
(* The input: listings (src/market.py, Market).  A cluster refers to a     *)
(* listing by its position in the input sequence (the object's identity).  *)
(***************************************************************************)
MaxMarkets == 3
MaxVolume == 2
MaxTop == 4

Platforms == {"kalshi", "polymarket"}

Market(id, platform, title, event_id, event_title, subtitle) ==
    [id |-> id, platform |-> platform, title |-> title, event_id |-> event_id,
     event_title |-> event_title, subtitle |-> subtitle]

\* the listings a batch is drawn from, each with any volume
Catalogue == {
    Market("A1", "kalshi", "Will the Lakers beat the Celtics?", "ev1", "", ""),
    Market("A2", "kalshi", "Celtics draft pick trade rumors", "ev1", "", ""),
    Market("A3", "kalshi", "Lakers vs Celtics", "ev2", "", ""),
    Market("P1", "polymarket", "Lakers vs Celtics - Who wins?", "", "", ""),
    Market("P2", "polymarket", "Celtics parade?", "ev1", "NBA 2025", "Yes or no"),
    Market("X1", "kalshi", "celtics?", "polymarket_P1", "", "") }

\* the listings the clusters asked for their top listings are made of
TopCatalogue == {m \in Catalogue : m.id \in {"A1", "A2", "A3", "P1"}}

\* the listings the batches of repeated invocations are drawn from
RepeatCatalogue == {m \in Catalogue : m.id \in {"A1", "P1"}}

WithVolume(m, v) ==
    [id |-> m.id, platform |-> m.platform, title |-> m.title,
     event_id |-> m.event_id, event_title |-> m.event_title,
     subtitle |-> m.subtitle, volume |-> v]

Listings(catalogue) == {WithVolume(m, v) : m \in catalogue, v \in 1..MaxVolume}

\* the batches: up to MaxMarkets distinct listings, in any order
Batches(catalogue) ==
    UNION {{b \in [1..n -> Listings(catalogue)] :
              \A i, j \in 1..n : i # j => b[i].id # b[j].id} : n \in 0..MaxMarkets}

\* Listings with the volume they have in the scenarios: the three listings of
\* a Lakers/Celtics and snowfall batch, two more listings about the same game,
\* a listing without any text and a listing whose event id is the string
\* "polymarket_E1"
ScenarioCatalogue == {
    WithVolume(Market("A1", "kalshi", "Will the Lakers beat the Celtics?", "ev1", "", ""), 10000),
    WithVolume(Market("P1", "polymarket", "Lakers vs Celtics - Who wins?", "", "", ""), 8000),
    WithVolume(Market("A2", "kalshi", "NYC snowfall over 30 inches?", "ev2", "", ""), 500000),
    WithVolume(Market("A3", "kalshi", "Lakers vs Celtics", "ev4", "", ""), 5000),
    WithVolume(Market("A4", "kalshi", "Celtics Lakers wins", "ev5", "", ""), 3000),
    WithVolume(Market("E1", "polymarket", "", "", "", ""), 20000),
    WithVolume(Market("K1", "kalshi", "Fed decision in March", "polymarket_E1", "", ""), 30000) }

ScenarioListing(id) == CHOOSE m \in ScenarioCatalogue : m.id = id

ScenarioBatches ==
    UNION {{b \in [1..n -> ScenarioCatalogue] :
              \A i, j \in 1..n : i # j => b[i].id # b[j].id} : n \in 0..MaxMarkets}

VARIABLES
    markets,           \* the argument of cluster_markets
    pc,                \* the step cluster_markets is at
    event_groups,      \* Step A: the groups, in insertion order
    initial_clusters,  \* Step B: the cluster objects, in creation order
    cluster_keys,      \* Step C: key -> the clusters that have it
    sorted_clusters,   \* Step D: the clusters (as indices) by total volume
    di,                \* Step D: the position of the loop in sorted_clusters
    merged_ids,        \* Step D: the event ids of the clusters dealt with
    merged_clusters,   \* Step D: the clusters emitted; at "done", the result
    first_call,        \* history: the argument and the result of the first
                       \* invocation, and whether another argument followed
    pairing,           \* two texts naming the same pair, and their pairing keys
    top,               \* the last call of get_top_markets and what it returned
    bot_pc,            \* bot.py, main: where the main thread is
    clock,             \* bot.py: the time, in minutes since the start
    next_run,          \* bot.py: when the market check job is due
    executing,         \* bot.py: the number of check_markets calls under way
    due_mid_run,       \* history: the job became due while a check was under way
    replayed,          \* history: the check under way was started by such a job
    extraction,        \* a text and what _generate_cluster_keys and
                       \* _clusters_are_related extract from it
    check,             \* bot.py, check_markets: where the analysis loop is
    alerts,            \* alerts.py: the alert log, the digest queue, and where
                       \* send_urgent_event_alerts or send_digest is
    fetch,             \* api_clients.py: where get_all_markets is
    loop               \* bot.py, main: the jobs and the loop that runs them

cluster_vars == <<markets, pc, event_groups, initial_clusters, cluster_keys,
                  sorted_clusters, di, merged_ids, merged_clusters, first_call>>

bot_vars == <<bot_pc, clock, next_run, executing, due_mid_run, replayed>>

\* what cluster_markets does not touch
svc_vars == <<alerts, fetch, loop>>
rest_vars == <<extraction, check, svc_vars>>
other_vars == <<pairing, top, bot_vars, rest_vars>>

vars == <<cluster_vars, other_vars>>

\* nothing but cluster_markets is going on
NoPairing == [x |-> "", y |-> "", text1 |-> "", text2 |-> "",
              keys1 |-> <<>>, keys2 |-> <<>>, computed |-> FALSE]
NoTop == [called |-> FALSE, cluster |-> 0, n |-> 0, result |-> <<>>]

BotOff ==
    /\ bot_pc = "off"
    /\ clock = 0
    /\ next_run = 0
    /\ executing = 0
    /\ due_mid_run = FALSE
    /\ replayed = FALSE

NoExtraction == [tokens |-> <<>>, text |-> "", computed |-> FALSE,
                 proper_nouns |-> <<>>, combo |-> <<>>, proper |-> <<>>,
                 fallback |-> <<>>, keys |-> <<>>, words |-> {}]

NoCheck == [pc |-> "off", ci |-> 0, original_vol |-> 0, before |-> <<>>]

NoAlerts == [pc |-> "off"]
NoFetch == [pc |-> "off"]
NoLoop == [pc |-> "off"]

SvcIdle ==
    /\ alerts = NoAlerts
    /\ fetch = NoFetch
    /\ loop = NoLoop

RestIdle ==
    /\ extraction = NoExtraction
    /\ check = NoCheck
    /\ SvcIdle

OthersIdle ==
    /\ pairing = NoPairing
    /\ top = NoTop
    /\ BotOff
    /\ RestIdle

(***************************************************************************)
(* MarketCluster                                                           *)
(***************************************************************************)
RECURSIVE SumVolumes(_)
SumVolumes(list) ==
    IF list = <<>> THEN 0 ELSE markets[Head(list)].volume + SumVolumes(Tail(list))

all_markets(c) == <<c.primary_market>> \o c.related_markets
total_volume(c) == markets[c.primary_market].volume + SumVolumes(c.related_markets)
market_count(c) == 1 + Len(c.related_markets)
platform_spread(c) ==
    {markets[c.primary_market].platform}
        \cup {markets[c.related_markets[i]].platform : i \in 1..Len(c.related_markets)}

RepresentativeText(event_title, title, subtitle) ==
    Join(" ", (IF event_title # "" THEN <<event_title>> ELSE <<>>)
              \o <<title>>
              \o (IF subtitle # "" THEN <<subtitle>> ELSE <<>>))

get_representative_text(c) ==
    RepresentativeText(c.event_title, markets[c.primary_market].title,
                       markets[c.primary_market].subtitle)

\* The texts a cluster of catalogue listings can have: the primary's title
\* and subtitle after a member's event title or the primary's own title.
RepTextsOf(catalogue) ==
    UNION {{RepresentativeText(et, m.title, m.subtitle) :
              et \in {x.event_title : x \in catalogue} \cup {m.title}} : m \in catalogue}

RepTexts == RepTextsOf(Catalogue) \cup RepTextsOf(ScenarioCatalogue)

\* the keys and the similarity words of these texts, computed once
KeysTable == {<<t, KeysOfText(t)>> : t \in RepTexts}
SimilarityWordsTable == {<<t, SimilarityWords(t)>> : t \in RepTexts}

Lookup(table, t) == (CHOOSE p \in table : p[1] = t)[2]

generate_cluster_keys(c) == Lookup(KeysTable, get_representative_text(c))

\* the platform test the wrong way round: only same-platform clusters relate
clusters_are_related_SamePlatform(c1, c2) ==
    IF markets[c1.primary_market].platform # markets[c2.primary_market].platform
    THEN FALSE
    ELSE Jaccard(Lookup(SimilarityWordsTable, get_representative_text(c1)),
                 Lookup(SimilarityWordsTable, get_representative_text(c2)))

clusters_are_related(c1, c2) ==
    IF markets[c1.primary_market].platform = markets[c2.primary_market].platform
    THEN FALSE
    ELSE Jaccard(Lookup(SimilarityWordsTable, get_representative_text(c1)),
                 Lookup(SimilarityWordsTable, get_representative_text(c2)))

(***************************************************************************)
(* sorted(list, key=..., reverse=True): stable, so elements with equal     *)
(* keys keep their order.  key is a function on the elements.              *)
(***************************************************************************)
\* x goes after the n elements whose key is not smaller
InsertAfter(sorted, x, n) ==
    SubSeq(sorted, 1, n) \o <<x>> \o SubSeq(sorted, n + 1, Len(sorted))

InsertDesc(sorted, x, key) ==
    InsertAfter(sorted, x,
                Cardinality({i \in 1..Len(sorted) : key[sorted[i]] >= key[x]}))

RECURSIVE SortedDesc(_, _)
SortedDesc(list, key) ==
    IF list = <<>> THEN <<>>
    ELSE InsertDesc(SortedDesc(SubSeq(list, 1, Len(list) - 1), key),
                    list[Len(list)], key)

VolumeOf == [i \in 1..Len(markets) |-> markets[i].volume]

\* list[:n], for n >= 0
Slice(list, n) == SubSeq(list, 1, IF n < Len(list) THEN n ELSE Len(list))

\* the first n members, as the members come (the primary first)
get_top_markets_Unsorted(c, n) == Slice(all_markets(c), n)

get_top_markets(c, n) == Slice(SortedDesc(all_markets(c), VolumeOf), n)

(***************************************************************************)
(* Step A: hard grouping by platform event id                              *)
(***************************************************************************)
\* every listing is keyed by itself
GroupKey_PerListing(m) == m.platform \o "_" \o m.id

GroupKey(m) == IF m.event_id # "" THEN m.event_id ELSE m.platform \o "_" \o m.id

\* one iteration of the loop: listing i goes to the group of its key
AddToGroup(groups, i, key) ==
    IF \E g \in 1..Len(groups) : groups[g].key = key
    THEN [g \in 1..Len(groups) |->
             IF groups[g].key = key
             THEN [key |-> key, members |-> Append(groups[g].members, i)]
             ELSE groups[g]]
    ELSE Append(groups, [key |-> key, members |-> <<i>>])

RECURSIVE GroupUpTo(_)
GroupUpTo(n) ==
    IF n = 0 THEN <<>> ELSE AddToGroup(GroupUpTo(n - 1), n, GroupKey(markets[n]))

\* the cluster objects a list of clusters refers to
ClustersAt(list) == [k \in 1..Len(list) |-> initial_clusters[list[k]]]

\* the history after a return: only the first invocation is recorded
NoCall == [called |-> FALSE, markets |-> <<>>, result |-> <<>>, others |-> FALSE]
Recorded(result) ==
    IF first_call.called THEN first_call
    ELSE [called |-> TRUE, markets |-> markets, result |-> result, others |-> FALSE]

\* if not markets: return []
EarlyReturn ==
    /\ pc = "A"
    /\ markets = <<>>
    /\ pc' = "done"
    /\ first_call' = Recorded(<<>>)
    /\ UNCHANGED <<markets, event_groups, initial_clusters, cluster_keys,
                   sorted_clusters, di, merged_ids, merged_clusters>>
    /\ UNCHANGED other_vars

\* the key of the group is written into the listing (market.event_id = key)
StepA_StoresKey ==
    /\ pc = "A"
    /\ markets # <<>>
    /\ event_groups' = GroupUpTo(Len(markets))
    /\ markets' = [i \in 1..Len(markets) |->
                      [markets[i] EXCEPT !.event_id = GroupKey(markets[i])]]
    /\ pc' = "B"
    /\ UNCHANGED <<initial_clusters, cluster_keys, sorted_clusters,
                   di, merged_ids, merged_clusters, first_call>>
    /\ UNCHANGED other_vars

StepA ==
    /\ pc = "A"
    /\ markets # <<>>
    /\ event_groups' = GroupUpTo(Len(markets))
    /\ pc' = "B"
    /\ UNCHANGED <<markets, initial_clusters, cluster_keys, sorted_clusters,
                   di, merged_ids, merged_clusters, first_call>>
    /\ UNCHANGED other_vars

(***************************************************************************)
(* Step B: one cluster per group                                           *)
(***************************************************************************)
\* the event title of the first listing of the list that has one, else ""
RECURSIVE FirstEventTitle(_)
FirstEventTitle(list) ==
    IF list = <<>> THEN ""
    ELSE IF markets[Head(list)].event_title # "" THEN markets[Head(list)].event_title
    ELSE FirstEventTitle(Tail(list))

\* event_title or primary.title
TitleOr(event_title, primary) ==
    IF event_title # "" THEN event_title ELSE markets[primary].title

MarketCluster(event_id, sorted_group, primary) ==
    [primary_market |-> primary,
     related_markets |-> Tail(sorted_group),
     event_id |-> event_id,
     event_title |-> TitleOr(FirstEventTitle(sorted_group), primary),
     platforms |-> {markets[primary].platform}]

ClusterOfSorted(event_id, sorted_group) ==
    MarketCluster(event_id, sorted_group, sorted_group[1])

\* the group is taken in input order: its first listing is the primary
MakeCluster_Unsorted(group) == ClusterOfSorted(group.key, group.members)

MakeCluster(group) == ClusterOfSorted(group.key, SortedDesc(group.members, VolumeOf))

StepB ==
    /\ pc = "B"
    /\ initial_clusters' = [g \in 1..Len(event_groups) |-> MakeCluster(event_groups[g])]
    /\ pc' = "C"
    /\ UNCHANGED <<markets, event_groups, cluster_keys, sorted_clusters, di,
                   merged_ids, merged_clusters, first_call>>
    /\ UNCHANGED other_vars

(***************************************************************************)
(* Step C: the key index                                                   *)
(***************************************************************************)
\* cluster_keys.get(key, [])
KeyLookup(index, key) == IF key \in DOMAIN index THEN index[key] ELSE <<>>

\* cluster c is appended under each of the keys of the list
IndexAdd(index, key, c) ==
    [k \in (DOMAIN index) \cup {key} |->
        IF k = key THEN Append(KeyLookup(index, key), c) ELSE index[k]]

RECURSIVE IndexUnder(_, _, _)
IndexUnder(index, keys, c) ==
    IF keys = <<>> THEN index
    ELSE IndexUnder(IndexAdd(index, Head(keys), c), Tail(keys), c)

RECURSIVE IndexUpTo(_)
IndexUpTo(n) ==
    IF n = 0 THEN <<>>
    ELSE IndexUnder(IndexUpTo(n - 1), generate_cluster_keys(initial_clusters[n]), n)

\* the clusters are ranked by the order Step B made them in, the last first
TotalVolumeOf_CreationRank == [c \in 1..Len(initial_clusters) |-> c]

TotalVolumeOf == [c \in 1..Len(initial_clusters) |-> total_volume(initial_clusters[c])]

\* Step C, and the clusters taken as seeds in the order Step B made them
StepC_SeedsAsCreated ==
    /\ pc = "C"
    /\ cluster_keys' = IndexUpTo(Len(initial_clusters))
    /\ sorted_clusters' = [c \in 1..Len(initial_clusters) |-> c]
    /\ di' = 1
    /\ pc' = "D"
    /\ UNCHANGED <<markets, event_groups, initial_clusters, merged_ids,
                   merged_clusters, first_call>>
    /\ UNCHANGED other_vars

\* Step C and the sort that opens Step D
StepC ==
    /\ pc = "C"
    /\ cluster_keys' = IndexUpTo(Len(initial_clusters))
    /\ sorted_clusters' = SortedDesc([c \in 1..Len(initial_clusters) |-> c], TotalVolumeOf)
    /\ di' = 1
    /\ pc' = "D"
    /\ UNCHANGED <<markets, event_groups, initial_clusters, merged_ids,
                   merged_clusters, first_call>>
    /\ UNCHANGED other_vars

(***************************************************************************)
(* Step D: merge cross-platform matches, one seed per step                 *)
(***************************************************************************)
\* every cluster is a candidate, whatever its keys
MatchingWith_IgnoringKeys(seed, keys) ==
    {initial_clusters[other].event_id :
       other \in {o \in 1..Len(initial_clusters) :
                    /\ initial_clusters[o].event_id # initial_clusters[seed].event_id
                    /\ initial_clusters[o].event_id \notin merged_ids
                    /\ clusters_are_related(initial_clusters[seed],
                                            initial_clusters[o])}}

\* only the first key of the seed is looked up
MatchingWith_FirstKey(seed, keys) ==
    {initial_clusters[other].event_id :
       other \in {o \in 1..Len(initial_clusters) :
                    /\ keys # <<>>
                    /\ o \in SeqRange(KeyLookup(cluster_keys, keys[1]))
                    /\ initial_clusters[o].event_id # initial_clusters[seed].event_id
                    /\ initial_clusters[o].event_id \notin merged_ids
                    /\ clusters_are_related(initial_clusters[seed],
                                            initial_clusters[o])}}

\* under each key only the cluster indexed first is looked at
MatchingWith_FirstHolder(seed, keys) ==
    {initial_clusters[other].event_id :
       other \in {o \in 1..Len(initial_clusters) :
                    /\ \E k \in 1..Len(keys) :
                          /\ KeyLookup(cluster_keys, keys[k]) # <<>>
                          /\ o = Head(KeyLookup(cluster_keys, keys[k]))
                    /\ initial_clusters[o].event_id # initial_clusters[seed].event_id
                    /\ initial_clusters[o].event_id \notin merged_ids
                    /\ clusters_are_related(initial_clusters[seed],
                                            initial_clusters[o])}}

\* the event ids of the clusters the seed matches
MatchingWith(seed, keys) ==
    {initial_clusters[other].event_id :
       other \in {o \in 1..Len(initial_clusters) :
                    /\ \E k \in 1..Len(keys) :
                          o \in SeqRange(KeyLookup(cluster_keys, keys[k]))
                    /\ initial_clusters[o].event_id # initial_clusters[seed].event_id
                    /\ initial_clusters[o].event_id \notin merged_ids
                    /\ clusters_are_related(initial_clusters[seed],
                                            initial_clusters[o])}}

MatchingClusters(seed) ==
    MatchingWith(seed, generate_cluster_keys(initial_clusters[seed]))

\* extend(other.related_markets): the primary of the other is left behind
AbsorbOne_RelatedOnly(c, other) ==
    [c EXCEPT !.related_markets = @ \o other.related_markets,
              !.platforms = @ \cup other.platforms]

\* append(other.primary_market): the related of the other are left behind
AbsorbOne_PrimaryOnly(c, other) ==
    [c EXCEPT !.related_markets = Append(@, other.primary_market),
              !.platforms = @ \cup other.platforms]

\* the seed absorbs, in the order of sorted_clusters, the clusters of the list
\* whose event id is in matching
AbsorbOne(c, other) ==
    [c EXCEPT !.related_markets = @ \o all_markets(other),
              !.platforms = @ \cup other.platforms]

RECURSIVE Absorb(_, _, _)
Absorb(c, list, matching) ==
    IF list = <<>> THEN c
    ELSE IF initial_clusters[Head(list)].event_id \in matching
         THEN Absorb(AbsorbOne(c, initial_clusters[Head(list)]), Tail(list), matching)
         ELSE Absorb(c, Tail(list), matching)

\* the related markets stay as the absorptions extended them
Resorted_AsExtended(c) == c

\* the re-sort of the related markets by volume
Resorted(c) == [c EXCEPT !.related_markets = SortedDesc(@, VolumeOf)]

Merge(c, matching) ==
    IF matching = {} THEN c ELSE Resorted(Absorb(c, sorted_clusters, matching))

\* the cluster was absorbed by an earlier seed: continue
SkipMerged ==
    /\ pc = "D"
    /\ di <= Len(sorted_clusters)
    /\ initial_clusters[sorted_clusters[di]].event_id \in merged_ids
    /\ di' = di + 1
    /\ UNCHANGED <<markets, pc, event_groups, initial_clusters, cluster_keys,
                   sorted_clusters, merged_ids, merged_clusters, first_call>>
    /\ UNCHANGED other_vars

MergeInto(seed, matching_clusters) ==
    /\ initial_clusters' =
          [initial_clusters EXCEPT ![seed] = Merge(@, matching_clusters)]
    /\ merged_ids' = merged_ids \cup matching_clusters
                        \cup {initial_clusters[seed].event_id}
    /\ merged_clusters' = Append(merged_clusters, seed)

ProcessSeed ==
    /\ pc = "D"
    /\ di <= Len(sorted_clusters)
    /\ initial_clusters[sorted_clusters[di]].event_id \notin merged_ids
    /\ MergeInto(sorted_clusters[di], MatchingClusters(sorted_clusters[di]))
    /\ di' = di + 1
    /\ UNCHANGED <<markets, pc, event_groups, cluster_keys, sorted_clusters,
                   first_call>>
    /\ UNCHANGED other_vars

\* the clusters are returned in the order they were emitted
FinalSort_Unsorted ==
    /\ pc = "D"
    /\ di > Len(sorted_clusters)
    /\ pc' = "done"
    /\ first_call' = Recorded(ClustersAt(merged_clusters))
    /\ UNCHANGED <<markets, event_groups, initial_clusters, cluster_keys,
                   sorted_clusters, di, merged_ids, merged_clusters>>
    /\ UNCHANGED other_vars

\* the final sort by total volume, and the return
FinalSort ==
    /\ pc = "D"
    /\ di > Len(sorted_clusters)
    /\ merged_clusters' = SortedDesc(merged_clusters, TotalVolumeOf)
    /\ pc' = "done"
    /\ first_call' = Recorded(ClustersAt(SortedDesc(merged_clusters, TotalVolumeOf)))
    /\ UNCHANGED <<markets, event_groups, initial_clusters, cluster_keys,
                   sorted_clusters, di, merged_ids>>
    /\ UNCHANGED other_vars

\* cluster_markets is entered with a batch of the catalogue: its locals are
\* fresh (event_groups = {}, initial_clusters = [], cluster_keys = {},
\* merged_clusters = [], merged_ids = set())
InitWith(catalogue) ==
    /\ markets \in Batches(catalogue)
    /\ pc = "A"
    /\ event_groups = <<>>
    /\ initial_clusters = <<>>
    /\ cluster_keys = <<>>
    /\ sorted_clusters = <<>>
    /\ di = 0
    /\ merged_ids = {}
    /\ merged_clusters = <<>>
    /\ first_call = NoCall
    /\ OthersIdle

Init == InitWith(Catalogue)

\* cluster_markets is entered with a batch of the scenario listings
InitScenario ==
    /\ markets \in ScenarioBatches
    /\ pc = "A"
    /\ event_groups = <<>>
    /\ initial_clusters = <<>>
    /\ cluster_keys = <<>>
    /\ sorted_clusters = <<>>
    /\ di = 0
    /\ merged_ids = {}
    /\ merged_clusters = <<>>
    /\ first_call = NoCall
    /\ OthersIdle

\* the invocation finds the event ids the previous one has dealt with
Invoke_KeepsMergedIds ==
    /\ pc = "done"
    /\ markets' \in Batches(RepeatCatalogue)
    /\ pc' = "A"
    /\ event_groups' = <<>>
    /\ initial_clusters' = <<>>
    /\ cluster_keys' = <<>>
    /\ sorted_clusters' = <<>>
    /\ di' = 0
    /\ merged_clusters' = <<>>
    /\ first_call' = [first_call EXCEPT !.others = @ \/ markets' # first_call.markets]
    /\ UNCHANGED merged_ids
    /\ UNCHANGED other_vars

\* cluster_markets is invoked again on the same engine, after it has returned:
\* the engine keeps nothing of the previous invocation
Invoke ==
    /\ pc = "done"
    /\ markets' \in Batches(RepeatCatalogue)
    /\ pc' = "A"
    /\ event_groups' = <<>>
    /\ initial_clusters' = <<>>
    /\ cluster_keys' = <<>>
    /\ sorted_clusters' = <<>>
    /\ di' = 0
    /\ merged_ids' = {}
    /\ merged_clusters' = <<>>
    /\ first_call' = [first_call EXCEPT !.others = @ \/ markets' # first_call.markets]
    /\ UNCHANGED other_vars

Next ==
    \/ EarlyReturn
    \/ StepA
    \/ StepB
    \/ StepC
    \/ SkipMerged
    \/ ProcessSeed
    \/ FinalSort

Spec == Init /\ [][Next]_vars

\* a caller asks a returned cluster for its n listings of largest volume
GetTop ==
    /\ pc = "done"
    /\ \E k \in 1..Len(merged_clusters), n \in 0..MaxTop :
          top' = [called |-> TRUE, cluster |-> k, n |-> n,
                  result |-> get_top_markets(initial_clusters[merged_clusters[k]], n)]
    /\ UNCHANGED <<cluster_vars, pairing, bot_vars, rest_vars>>

InitTop == InitWith(TopCatalogue)

NextTop == Next \/ GetTop

SpecTop == InitTop /\ [][NextTop]_vars

\* cluster_markets is not being called
ClusteringIdle ==
    /\ markets = <<>>
    /\ pc = "idle"
    /\ event_groups = <<>>
    /\ initial_clusters = <<>>
    /\ cluster_keys = <<>>
    /\ sorted_clusters = <<>>
    /\ di = 0
    /\ merged_ids = {}
    /\ merged_clusters = <<>>
    /\ first_call = NoCall

(***************************************************************************)
(* Key 3 of _generate_cluster_keys on two texts that name the same two     *)
(* teams in opposite order                                                 *)
(***************************************************************************)
\* words that are not stop words: capitalised, lower case, with digits, with
\* an underscore, and a year
PairTokens == {"Lakers", "Celtics", "heat", "49ers", "a_b", "Zeta", "2024"}

\* the separators of the pattern, in the spellings re.IGNORECASE admits
PairSeparators == {"vs", "vs.", "versus", "v", "v.", "@", "VS"}

PairContexts == {<<"", "">>, <<"Who wins: ", " tonight?">>}

PairText(x, sep, y, context) == context[1] \o x \o " " \o sep \o " " \o y \o context[2]

PairingInputs ==
    {[x |-> x, y |-> y, text1 |-> PairText(x, sep1, y, context),
      text2 |-> PairText(y, sep2, x, context),
      keys1 |-> <<>>, keys2 |-> <<>>, computed |-> FALSE] :
        x \in PairTokens, y \in PairTokens, sep1 \in PairSeparators,
        sep2 \in PairSeparators, context \in PairContexts}

\* lines 226 and 256-262 of _generate_cluster_keys on a text
PairingKeys(text) == VsKeys(YEAR_PATTERN_sub(text))

InitPairing ==
    /\ ClusteringIdle
    /\ pairing \in PairingInputs
    /\ top = NoTop
    /\ BotOff
    /\ RestIdle

ComputePairingKeys ==
    /\ ~ pairing.computed
    /\ pairing' = [pairing EXCEPT !.keys1 = PairingKeys(pairing.text1),
                                  !.keys2 = PairingKeys(pairing.text2),
                                  !.computed = TRUE]
    /\ UNCHANGED <<cluster_vars, top, bot_vars, rest_vars>>

NextPairing == ComputePairingKeys

SpecPairing == InitPairing /\ [][NextPairing]_vars

\* the batches of the scenarios
SpecScenario == InitScenario /\ [][Next]_vars

(***************************************************************************)
(* Step C with the keys of the clusters computed and indexed in any order  *)
(***************************************************************************)
\* the orders in which n clusters can be taken
Orders(n) == {o \in [1..n -> 1..n] : \A i, j \in 1..n : i # j => o[i] # o[j]}

\* the index after the first n clusters of the order have been indexed
RECURSIVE IndexInOrder(_, _)
IndexInOrder(order, n) ==
    IF n = 0 THEN <<>>
    ELSE IndexUnder(IndexInOrder(order, n - 1),
                    generate_cluster_keys(initial_clusters[order[n]]), order[n])

\* Step C with the loop body run once per cluster, in some order, and the
\* sort that opens Step D
StepC_AnyOrder ==
    /\ pc = "C"
    /\ \E order \in Orders(Len(initial_clusters)) :
          cluster_keys' = IndexInOrder(order, Len(initial_clusters))
    /\ sorted_clusters' = SortedDesc([c \in 1..Len(initial_clusters) |-> c], TotalVolumeOf)
    /\ di' = 1
    /\ pc' = "D"
    /\ UNCHANGED <<markets, event_groups, initial_clusters, merged_ids,
                   merged_clusters, first_call>>
    /\ UNCHANGED other_vars

\* cluster_markets is invoked again with the same batch
InvokeAgain ==
    /\ pc = "done"
    /\ pc' = "A"
    /\ event_groups' = <<>>
    /\ initial_clusters' = <<>>
    /\ cluster_keys' = <<>>
    /\ sorted_clusters' = <<>>
    /\ di' = 0
    /\ merged_ids' = {}
    /\ merged_clusters' = <<>>
    /\ UNCHANGED <<markets, first_call>>
    /\ UNCHANGED other_vars

NextAnyOrder ==
    \/ Next
    \/ StepC_AnyOrder
    \/ InvokeAgain

SpecAnyOrder == InitScenario /\ [][NextAnyOrder]_vars

\* cluster_markets is invoked again with the listings of the first batch in
\* some order
InvokePermuted ==
    /\ pc = "done"
    /\ \E order \in Orders(Len(first_call.markets)) :
          markets' = [i \in 1..Len(first_call.markets) |-> first_call.markets[order[i]]]
    /\ pc' = "A"
    /\ event_groups' = <<>>
    /\ initial_clusters' = <<>>
    /\ cluster_keys' = <<>>
    /\ sorted_clusters' = <<>>
    /\ di' = 0
    /\ merged_ids' = {}
    /\ merged_clusters' = <<>>
    /\ first_call' = [first_call EXCEPT !.others = @ \/ markets' # first_call.markets]
    /\ UNCHANGED other_vars

NextPermuted ==
    \/ Next
    \/ InvokePermuted

SpecPermuted == InitScenario /\ [][NextPermuted]_vars

\* repeated invocations on one engine
InitRepeat == InitWith(RepeatCatalogue)

NextRepeat ==
    \/ Next
    \/ Invoke

SpecRepeat == InitRepeat /\ [][NextRepeat]_vars

(***************************************************************************)
(* _generate_cluster_keys and the word set of _clusters_are_related on     *)
(* representative texts made of up to MaxTokens words                      *)
(***************************************************************************)
MaxTokens == 3

ExtractionTokens == {"Lakers", "Heat", "finals", "game", "nba", "the", "2024", "1999"}

ExtractionInputs ==
    UNION {{[NoExtraction EXCEPT !.tokens = t, !.text = Join(" ", t)] :
              t \in [1..n -> ExtractionTokens]} : n \in 1..MaxTokens}

InitExtraction ==
    /\ ClusteringIdle
    /\ pairing = NoPairing
    /\ top = NoTop
    /\ BotOff
    /\ extraction \in ExtractionInputs
    /\ check = NoCheck
    /\ SvcIdle

\* what _generate_cluster_keys finds in the text without its years
ExtractedKeys(e, stripped, proper_nouns, proper) ==
    [e EXCEPT !.computed = TRUE,
              !.proper_nouns = proper_nouns,
              !.combo = ComboKey(proper_nouns),
              !.proper = proper,
              !.fallback = SignificantWordKeys(proper, KeyWords(stripped)),
              !.keys = KeysAfter(proper, stripped),
              !.words = SimilarityWords(e.text)]

ExtractedFrom(e, stripped, proper_nouns) ==
    ExtractedKeys(e, stripped, proper_nouns, ProperNounKeysOf(proper_nouns))

Extract ==
    /\ ~ extraction.computed
    /\ extraction' = ExtractedFrom(extraction, YEAR_PATTERN_sub(extraction.text),
                                   ProperNouns(YEAR_PATTERN_sub(extraction.text)))
    /\ UNCHANGED <<cluster_vars, pairing, top, bot_vars, check, svc_vars>>

NextExtraction == Extract

SpecExtraction == InitExtraction /\ [][NextExtraction]_vars

(***************************************************************************)
(* bot.py, check_markets: the listings fetched are filtered by volume and  *)
(* clustered; then each cluster whose total volume reaches the threshold   *)
(* is analysed through its primary, whose volume is meanwhile overwritten  *)
(* with the total volume of the cluster.  An exception anywhere is caught  *)
(* by the handler that encloses the whole body.                            *)
(***************************************************************************)
absolute_min_volume == 10000
min_volume_tier_s == 50000

\* viable_markets = [m for m in all_markets if m.volume > absolute_min_volume]
ViableMarkets(all_markets_fetched) ==
    SelectSeq(all_markets_fetched, LAMBDA m : m.volume > absolute_min_volume)

\* the listings the aggregator fetches: those of the scenarios, two of them,
\* related across platforms, with volumes above the floor
FetchedCatalogue ==
    {WithVolume(ScenarioListing("A1"), 40000), WithVolume(ScenarioListing("P1"), 30000),
     ScenarioListing("A2"), ScenarioListing("A3"), ScenarioListing("E1"),
     ScenarioListing("K1")}

FetchedBatches ==
    UNION {{b \in [1..n -> FetchedCatalogue] :
              \A i, j \in 1..n : i # j => b[i].id # b[j].id} : n \in 0..MaxMarkets}

InitCheck ==
    /\ \E fetched \in FetchedBatches :
          /\ markets = ViableMarkets(fetched)
          /\ check = [pc |-> "clustering", ci |-> 0, original_vol |-> 0,
                      before |-> [i \in 1..Len(ViableMarkets(fetched)) |->
                                    ViableMarkets(fetched)[i].volume]]
    /\ pc = "A"
    /\ event_groups = <<>>
    /\ initial_clusters = <<>>
    /\ cluster_keys = <<>>
    /\ sorted_clusters = <<>>
    /\ di = 0
    /\ merged_ids = {}
    /\ merged_clusters = <<>>
    /\ first_call = NoCall
    /\ pairing = NoPairing
    /\ top = NoTop
    /\ BotOff
    /\ extraction = NoExtraction
    /\ SvcIdle

check_unchanged == <<pc, event_groups, initial_clusters, cluster_keys, sorted_clusters,
                     di, merged_ids, merged_clusters, first_call,
                     pairing, top, bot_vars, extraction, svc_vars>>

\* cluster_markets has returned: the loop over the clusters starts
ClustersReturned ==
    /\ check.pc = "clustering"
    /\ pc = "done"
    /\ check' = [check EXCEPT !.pc = "loop", !.ci = 1]
    /\ UNCHANGED <<markets, check_unchanged>>

\* if cluster.total_volume < self.min_volume_tier_s: continue
SkipCluster ==
    /\ check.pc = "loop"
    /\ check.ci <= Len(merged_clusters)
    /\ total_volume(initial_clusters[merged_clusters[check.ci]]) < min_volume_tier_s
    /\ check' = [check EXCEPT !.ci = @ + 1]
    /\ UNCHANGED <<markets, check_unchanged>>

\* original_vol = market.volume; market.volume = cluster.total_volume
InjectWith(primary, total) ==
    /\ check' = [check EXCEPT !.pc = "analysis", !.original_vol = markets[primary].volume]
    /\ markets' = [markets EXCEPT ![primary].volume = total]

InjectTotalVolume ==
    /\ check.pc = "loop"
    /\ check.ci <= Len(merged_clusters)
    /\ total_volume(initial_clusters[merged_clusters[check.ci]]) >= min_volume_tier_s
    /\ InjectWith(initial_clusters[merged_clusters[check.ci]].primary_market,
                  total_volume(initial_clusters[merged_clusters[check.ci]]))
    /\ UNCHANGED check_unchanged

\* create_from_market and _analyze_market return: market.volume = original_vol
AnalysisReturns ==
    /\ check.pc = "analysis"
    /\ markets' = [markets EXCEPT
                     ![initial_clusters[merged_clusters[check.ci]].primary_market].volume
                        = check.original_vol]
    /\ check' = [check EXCEPT !.pc = "loop", !.ci = @ + 1]
    /\ UNCHANGED check_unchanged

\* create_from_market or _analyze_market raises: the handler at the end of
\* check_markets logs the error, and check_markets returns
AnalysisRaises ==
    /\ check.pc = "analysis"
    /\ check' = [check EXCEPT !.pc = "returned"]
    /\ UNCHANGED <<markets, check_unchanged>>

\* the loop is over; the alerts are sent, and check_markets returns
LoopEnds ==
    /\ check.pc = "loop"
    /\ check.ci > Len(merged_clusters)
    /\ check' = [check EXCEPT !.pc = "returned"]
    /\ UNCHANGED <<markets, check_unchanged>>

NextCheck ==
    \/ Next
    \/ ClustersReturned
    \/ SkipCluster
    \/ InjectTotalVolume
    \/ AnalysisReturns
    \/ AnalysisRaises
    \/ LoopEnds

SpecCheck == InitCheck /\ [][NextCheck]_vars

(***************************************************************************)
(* bot.py, main: one thread registers the market check with the scheduler, *)
(* runs a first check itself, then polls the scheduler once a minute.      *)
(* Time is in minutes.  A check takes any time; polling takes none.  The   *)
(* scheduler (schedule.every(n).minutes.do(f), schedule.run_pending())     *)
(* keeps for the job the time of its next run: registration sets it one    *)
(* interval ahead, run_pending calls f in the calling thread when that     *)
(* time has come, and sets it one interval after f has returned.           *)
(***************************************************************************)
CheckInterval == 2
MaxClock == 10
SleepMinutes == 1

InitBot ==
    /\ ClusteringIdle
    /\ pairing = NoPairing
    /\ top = NoTop
    /\ bot_pc = "start"
    /\ clock = 0
    /\ next_run = 0
    /\ executing = 0
    /\ due_mid_run = FALSE
    /\ replayed = FALSE
    /\ RestIdle

\* the job is registered, and main calls check_markets itself
RegisterAndCheck ==
    /\ bot_pc = "start"
    /\ next_run' = clock + CheckInterval
    /\ executing' = executing + 1
    /\ bot_pc' = "initial_check"
    /\ UNCHANGED <<clock, due_mid_run, replayed>>
    /\ UNCHANGED <<cluster_vars, pairing, top, rest_vars>>

\* a minute passes while check_markets is under way
CheckTakesTime ==
    /\ bot_pc \in {"initial_check", "scheduled_check"}
    /\ clock < MaxClock
    /\ clock' = clock + 1
    /\ due_mid_run' = (due_mid_run \/ (clock < next_run /\ clock' >= next_run))
    /\ UNCHANGED <<bot_pc, next_run, executing, replayed>>
    /\ UNCHANGED <<cluster_vars, pairing, top, rest_vars>>

\* the first check_markets returns (it catches its exceptions); the loop starts
InitialCheckReturns ==
    /\ bot_pc = "initial_check"
    /\ executing' = executing - 1
    /\ bot_pc' = "run_pending"
    /\ UNCHANGED <<clock, next_run, due_mid_run, replayed>>
    /\ UNCHANGED <<cluster_vars, pairing, top, rest_vars>>

\* run_pending finds the time of the job has come, and calls check_markets
RunPendingDue ==
    /\ bot_pc = "run_pending"
    /\ clock >= next_run
    /\ executing' = executing + 1
    /\ replayed' = due_mid_run
    /\ due_mid_run' = FALSE
    /\ bot_pc' = "scheduled_check"
    /\ UNCHANGED <<clock, next_run>>
    /\ UNCHANGED <<cluster_vars, pairing, top, rest_vars>>

\* run_pending finds nothing to run; main goes to sleep
RunPendingIdle ==
    /\ bot_pc = "run_pending"
    /\ clock < next_run
    /\ bot_pc' = "sleep"
    /\ UNCHANGED <<clock, next_run, executing, due_mid_run, replayed>>
    /\ UNCHANGED <<cluster_vars, pairing, top, rest_vars>>

\* check_markets, called by run_pending, returns: the job is due again one
\* interval from now; main goes to sleep
ScheduledCheckReturns ==
    /\ bot_pc = "scheduled_check"
    /\ executing' = executing - 1
    /\ next_run' = clock + CheckInterval
    /\ replayed' = FALSE
    /\ bot_pc' = "sleep"
    /\ UNCHANGED <<clock, due_mid_run>>
    /\ UNCHANGED <<cluster_vars, pairing, top, rest_vars>>

\* time.sleep(60) returns
Sleep ==
    /\ bot_pc = "sleep"
    /\ clock + SleepMinutes <= MaxClock
    /\ clock' = clock + SleepMinutes
    /\ bot_pc' = "run_pending"
    /\ UNCHANGED <<next_run, executing, due_mid_run, replayed>>
    /\ UNCHANGED <<cluster_vars, pairing, top, rest_vars>>

\* KeyboardInterrupt: in the loop it ends the loop, in the first check it
\* ends main; the check under way, if any, is abandoned
Interrupt ==
    /\ bot_pc \in {"initial_check", "run_pending", "scheduled_check", "sleep"}
    /\ bot_pc' = "stopped"
    /\ executing' = 0
    /\ replayed' = FALSE
    /\ UNCHANGED <<clock, next_run, due_mid_run>>
    /\ UNCHANGED <<cluster_vars, pairing, top, rest_vars>>

NextBot ==
    \/ RegisterAndCheck
    \/ CheckTakesTime
    \/ InitialCheckReturns
    \/ RunPendingDue
    \/ RunPendingIdle
    \/ ScheduledCheckReturns
    \/ Sleep
    \/ Interrupt

SpecBot == InitBot /\ [][NextBot]_vars

(***************************************************************************)
(* alerts.py, AlertManager.send_urgent_event_alerts, with the alert log of *)
(* models.py.  Time is in hours and passes between any two steps.  A hot   *)
(* event is known by the event id of its cluster.  The alert log is the    *)
(* table alert_logs, in order of insertion; a row is committed by the      *)
(* statement that creates it.                                              *)
(***************************************************************************)
max_alerts_per_hour == 2
MaxBatch == 2
MaxHours == 7
RateHours == 1
DedupHours == 6
QueueHours == 24

EventIds == {"e1", "e2", "e3"}

HotEventBatches == UNION {[1..n -> EventIds] : n \in 0..MaxBatch}

\* AlertLog.get_recent_alert_count(hours): the real-time rows with
\* sent_at >= utcnow() - hours
get_recent_alert_count_Exclusive(log, now, hours) ==
    Cardinality({k \in DOMAIN log : /\ log[k].alert_type = "real_time"
                                    /\ log[k].sent_at > now - hours})

get_recent_alert_count(log, now, hours) ==
    Cardinality({k \in DOMAIN log : /\ log[k].alert_type = "real_time"
                                    /\ log[k].sent_at >= now - hours})

\* AlertLog.was_alerted_recently(market_id, hours): there is a real-time row
\* of that id with sent_at >= utcnow() - hours
was_alerted_recently_Never(log, market_id, now, hours) == FALSE

was_alerted_recently(log, market_id, now, hours) ==
    \E k \in DOMAIN log : /\ log[k].market_id = market_id
                          /\ log[k].alert_type = "real_time"
                          /\ log[k].sent_at >= now - hours

\* AlertLog.create(..., alert_type): the row gets the time of its creation
AlertLog_create(log, market_id, alert_type, now) ==
    Append(log, [market_id |-> market_id, alert_type |-> alert_type, sent_at |-> now])

\* the manager between two calls, with the log as it is
Waiting(a) ==
    [pc |-> "idle", now |-> a.now, log |-> a.log, hot_events |-> <<>>, i |-> 0,
     outcome |-> <<>>, raised |-> FALSE]

InitAlerts ==
    /\ ClusteringIdle
    /\ pairing = NoPairing
    /\ top = NoTop
    /\ BotOff
    /\ extraction = NoExtraction
    /\ check = NoCheck
    /\ alerts = Waiting([now |-> 0, log |-> <<>>])
    /\ fetch = NoFetch
    /\ loop = NoLoop

alerts_unchanged == <<cluster_vars, pairing, top, bot_vars, extraction, check, fetch, loop>>

\* an hour passes
HourPasses ==
    /\ alerts.pc \in {"idle", "loop", "sent"}
    /\ alerts.now < MaxHours
    /\ alerts' = [alerts EXCEPT !.now = @ + 1]
    /\ UNCHANGED alerts_unchanged

\* lines 183-192: the call, with the two tests that send the whole batch to
\* the digest queue; outside says business_hours_only is set and it is not
\* a business hour
SendUrgentCalled ==
    /\ alerts.pc = "idle"
    /\ \E hot_events \in HotEventBatches, outside \in BOOLEAN :
          alerts' = [Waiting(alerts) EXCEPT
                        !.hot_events = hot_events,
                        !.outcome = [k \in 1..Len(hot_events) |-> "none"],
                        !.i = 1,
                        !.pc = IF \/ outside
                                  \/ get_recent_alert_count(alerts.log, alerts.now, RateHours)
                                        >= max_alerts_per_hour
                               THEN "queue" ELSE "loop"]
    /\ UNCHANGED alerts_unchanged

\* queue_events_for_digest, lines 219-253: its first statement for an event
\* calls DigestQueue.was_recently_sent, which models.py does not define: the
\* call raises AttributeError, which nothing in alerts.py catches; with no
\* event the loop has no iteration.
QueueEventsForDigest ==
    /\ alerts.pc = "queue"
    /\ alerts' = [alerts EXCEPT !.pc = "over", !.raised = (alerts.hot_events # <<>>)]
    /\ UNCHANGED alerts_unchanged

\* lines 194-200: the event was alerted in the last 6 hours: continue
SkipAlerted ==
    /\ alerts.pc = "loop"
    /\ alerts.i <= Len(alerts.hot_events)
    /\ was_alerted_recently(alerts.log, alerts.hot_events[alerts.i], alerts.now, DedupHours)
    /\ alerts' = [alerts EXCEPT !.outcome[alerts.i] = "skipped", !.i = @ + 1]
    /\ UNCHANGED alerts_unchanged

\* lines 202-214: the message goes to Slack; when Slack has accepted it, the
\* alert is logged
SendToSlack ==
    /\ alerts.pc = "loop"
    /\ alerts.i <= Len(alerts.hot_events)
    /\ ~ was_alerted_recently(alerts.log, alerts.hot_events[alerts.i], alerts.now, DedupHours)
    /\ \E success \in BOOLEAN :
          alerts' = [alerts EXCEPT
                        !.pc = "sent",
                        !.log = IF success
                                THEN AlertLog_create(@, alerts.hot_events[alerts.i],
                                                     "real_time", alerts.now)
                                ELSE @,
                        !.outcome[alerts.i] = IF success THEN "delivered" ELSE "none"]
    /\ UNCHANGED alerts_unchanged

\* lines 216-217: the loop is left when the hour is full
RateCheck ==
    /\ alerts.pc = "sent"
    /\ alerts' = [alerts EXCEPT
                     !.pc = IF get_recent_alert_count(alerts.log, alerts.now, RateHours)
                                >= max_alerts_per_hour
                            THEN "over" ELSE "loop",
                     !.i = @ + 1]
    /\ UNCHANGED alerts_unchanged

\* the loop has gone through the batch
BatchDone ==
    /\ alerts.pc = "loop"
    /\ alerts.i > Len(alerts.hot_events)
    /\ alerts' = [alerts EXCEPT !.pc = "over"]
    /\ UNCHANGED alerts_unchanged

\* the call is over: the manager waits for the next one
CallOver ==
    /\ alerts.pc = "over"
    /\ alerts' = Waiting(alerts)
    /\ UNCHANGED alerts_unchanged

NextAlerts ==
    \/ HourPasses
    \/ SendUrgentCalled
    \/ QueueEventsForDigest
    \/ SkipAlerted
    \/ SendToSlack
    \/ RateCheck
    \/ BatchDone
    \/ CallOver

SpecAlerts == InitAlerts /\ [][NextAlerts]_vars

(***************************************************************************)
(* alerts.py, AlertManager.send_digest, with the digest queue of           *)
(* models.py.  The queue is the table digest_queue in the order of         *)
(* get_queued_markets (latest first).  A call is one step: it reads the    *)
(* queue, formats one message, posts it and, when Slack has accepted it,   *)
(* marks the rows and logs them.                                           *)
(***************************************************************************)
MaxUrgent == 6
MaxDaily == 11
UrgentShown == 5
DailyShown == 10

\* a row of digest_queue, not yet in a digest; platform and raw_data are read
\* by _format_digest_event_item
QueueRow(market_id, tier) ==
    [market_id |-> market_id, alert_tier |-> tier, included_in_digest |-> FALSE,
     platform |-> "polymarket", raw_data |-> ""]

QueuedRows(nu, nd) ==
    [k \in 1..nu |-> QueueRow("u" \o ToString(k), "urgent")]
       \o [k \in 1..nd |-> QueueRow("d" \o ToString(k), "daily")]

\* DigestQueue.get_queued_markets(tier): the rows of the tier not yet in a digest
get_queued_markets(queue, tier) ==
    SelectSeq(queue, LAMBDA m : ~ m.included_in_digest /\ m.alert_tier = tier)

\* lines 265-266: the rows alerted in real time in the last 24 hours are left out
NotAlerted(rows, log, now) ==
    SelectSeq(rows, LAMBDA m : ~ was_alerted_recently(log, m.market_id, now, QueueHours))

MarketIds(rows) == {rows[k].market_id : k \in DOMAIN rows}

\* _format_event_digest: the ids of the rows the message has an item for
format_event_digest(urgent, daily) ==
    MarketIds(Slice(urgent, UrgentShown)) \cup MarketIds(Slice(daily, DailyShown))

\* DigestQueue.mark_as_sent(market_ids)
mark_as_sent(queue, market_ids) ==
    [k \in DOMAIN queue |->
        IF queue[k].market_id \in market_ids
        THEN [queue[k] EXCEPT !.included_in_digest = TRUE]
        ELSE queue[k]]

\* lines 281-288: one digest row of the alert log for each row marked
LogDigest(log, rows, now) ==
    log \o [k \in DOMAIN rows |->
              [market_id |-> rows[k].market_id, alert_type |-> "digest", sent_at |-> now]]

\* the rows of a tier that send_digest is left with after its two filters
ToSend(d, tier) == NotAlerted(get_queued_markets(d.queue, tier), d.log, d.now)

\* send_digest from line 260 on: with no row left it returns; otherwise it
\* posts the message, and marks and logs all the rows when Slack accepts it
SendDigestOf(d, urgent, daily, success) ==
    IF success /\ urgent \o daily # <<>>
    THEN [d EXCEPT !.queue = mark_as_sent(@, MarketIds(urgent \o daily)),
                   !.log = LogDigest(@, urgent \o daily, d.now),
                   !.accepted = @ \cup format_event_digest(urgent, daily)]
    ELSE d

\* the events of the queue that were alerted in real time just now
AlertedBefore == {<<>>, <<"u1">>, <<"d1">>, <<"u1", "d1">>}

InitDigest ==
    /\ ClusteringIdle
    /\ pairing = NoPairing
    /\ top = NoTop
    /\ BotOff
    /\ extraction = NoExtraction
    /\ check = NoCheck
    /\ \E nu \in 0..MaxUrgent, nd \in 0..MaxDaily, alerted \in AlertedBefore :
          alerts = [pc |-> "digest", now |-> 0, accepted |-> {},
                    queue |-> QueuedRows(nu, nd),
                    log |-> [k \in DOMAIN alerted |->
                               [market_id |-> alerted[k],
                                alert_type |-> "real_time", sent_at |-> 0]]]
    /\ fetch = NoFetch
    /\ loop = NoLoop

\* send_digest, lines 255-288
SendDigest ==
    /\ alerts.pc = "digest"
    /\ \E success \in BOOLEAN :
          alerts' = SendDigestOf(alerts, ToSend(alerts, "urgent"), ToSend(alerts, "daily"),
                                 success)
    /\ UNCHANGED alerts_unchanged

NextDigest == SendDigest

SpecDigest == InitDigest /\ [][NextDigest]_vars

(***************************************************************************)
(* api_clients.py, PolymarketClient.get_all_markets: the pages are fetched *)
(* by a pool of worker threads, the calling thread collects what they      *)
(* return.  A page is known by its number (its offset is the number times  *)
(* PAGE_SIZE); the listings collected are counted.  The server has         *)
(* ServerPages pages at most: the last of them is short.                   *)
(***************************************************************************)
PAGE_SIZE == 2
initial_pages == 3
max_workers == 2
MaxLimit == 3
ServerPages == 4

\* what _fetch_page can return for a page: the listings parsed, at most one
\* per item of the response, and whether the response was short; after three
\* failed attempts ([], True); or an exception that is not a RequestException
PageResults(page) ==
    {r \in [n : 0..PAGE_SIZE, last : BOOLEAN, raised : BOOLEAN] :
        /\ r.n = PAGE_SIZE => ~ r.last
        /\ page >= ServerPages - 1 => (r.last \/ r.raised)
        /\ r.raised => (r.n = 0 /\ ~ r.last)}

\* the futures the pool can be running: it takes them in order of submission,
\* max_workers at a time
Running(f) ==
    {p \in f.future_to_offset \ DOMAIN f.finished :
        Cardinality({q \in f.future_to_offset \ DOMAIN f.finished : q < p}) < max_workers}

InitPolymarket ==
    /\ ClusteringIdle
    /\ pairing = NoPairing
    /\ top = NoTop
    /\ BotOff
    /\ extraction = NoExtraction
    /\ check = NoCheck
    /\ alerts = NoAlerts
    /\ \E limit \in 0..MaxLimit :
          fetch = [pc |-> "called", limit |-> limit, all_markets |-> 0,
                   future_to_offset |-> {}, finished |-> <<>>, done |-> {},
                   current_offset |-> 0, last_page_found |-> FALSE]
    /\ loop = NoLoop

fetch_unchanged == <<cluster_vars, pairing, top, bot_vars, extraction, check, alerts, loop>>

\* lines 211-220: the first pages are submitted to the pool
SubmitInitialPages ==
    /\ fetch.pc = "called"
    /\ fetch' = [fetch EXCEPT !.pc = "wait",
                              !.future_to_offset = 0..(initial_pages - 1),
                              !.current_offset = initial_pages]
    /\ UNCHANGED fetch_unchanged

\* a worker thread: _fetch_page returns for a page, or raises
PageFetched ==
    /\ fetch.pc \in {"wait", "for"}
    /\ \E page \in Running(fetch) : \E r \in PageResults(page) :
          fetch' = [fetch EXCEPT !.finished = (page :> r) @@ @]
    /\ UNCHANGED fetch_unchanged

\* lines 222-223: the loop goes on while futures are left and the limit is not
\* reached; wait returns the futures that have completed, once there is one
WaitReturns ==
    /\ fetch.pc = "wait"
    /\ fetch.future_to_offset # {}
    /\ fetch.all_markets < fetch.limit
    /\ DOMAIN fetch.finished # {}
    /\ fetch' = [fetch EXCEPT !.pc = "for", !.done = DOMAIN fetch.finished]
    /\ UNCHANGED fetch_unchanged

\* what lines 236-241 leave of the offsets: the next page is submitted when
\* no last page was seen and the limit is not reached
SubmitNext(f, submit) ==
    [f EXCEPT !.future_to_offset = IF submit THEN @ \cup {f.current_offset} ELSE @,
              !.current_offset = IF submit THEN @ + 1 ELSE @]

\* lines 225-244, the body of the for loop for one completed future
CollectedFrom(f, page, r) ==
    IF r.raised
    THEN [f EXCEPT !.done = @ \ {page},
                   !.future_to_offset = @ \ {page},
                   !.finished = [p \in DOMAIN @ \ {page} |-> @[p]]]
    ELSE SubmitNext([f EXCEPT !.done = @ \ {page},
                              !.future_to_offset = @ \ {page},
                              !.finished = [p \in DOMAIN @ \ {page} |-> @[p]],
                              !.all_markets = @ + r.n,
                              !.last_page_found = @ \/ r.last],
                    ~ (f.last_page_found \/ r.last) /\ f.all_markets + r.n < f.limit)

CollectPage ==
    /\ fetch.pc = "for"
    /\ \E page \in fetch.done :
          fetch' = CollectedFrom(fetch, page, fetch.finished[page])
    /\ UNCHANGED fetch_unchanged

\* lines 246-247 and 222: after the for loop, break on the last page with no
\* future left, else test the condition of the while loop again
ForLoopEnds ==
    /\ fetch.pc = "for"
    /\ fetch.done = {}
    /\ fetch' = [fetch EXCEPT !.pc = IF fetch.last_page_found /\ fetch.future_to_offset = {}
                                     THEN "returned" ELSE "wait"]
    /\ UNCHANGED fetch_unchanged

\* lines 222, 249-250: the while loop is left, all_markets is returned
PolymarketReturns ==
    /\ fetch.pc = "wait"
    /\ ~ (fetch.future_to_offset # {} /\ fetch.all_markets < fetch.limit)
    /\ fetch' = [fetch EXCEPT !.pc = "returned"]
    /\ UNCHANGED fetch_unchanged

NextPolymarket ==
    \/ SubmitInitialPages
    \/ PageFetched
    \/ WaitReturns
    \/ CollectPage
    \/ ForLoopEnds
    \/ PolymarketReturns

SpecPolymarket == InitPolymarket /\ [][NextPolymarket]_vars

(***************************************************************************)
(* api_clients.py, KalshiClient.get_all_markets: the pages are fetched one *)
(* after the other, each asked for again while the server answers 429.     *)
(* The listings collected are counted.  The responses of the current page  *)
(* and the waits made for it are kept as history.                          *)
(***************************************************************************)
batch_size == 2
MaxAttempts == 5

\* params["limit"] = min(remaining, batch_size)
PageLimit_BatchSize(limit, collected) == batch_size

PageLimit(limit, collected) ==
    IF limit - collected < batch_size THEN limit - collected ELSE batch_size

\* wait_time = 2 ** attempt
wait_time_Linear(attempt) == attempt + 1

wait_time(attempt) == 2 ^ attempt

InitKalshi ==
    /\ ClusteringIdle
    /\ pairing = NoPairing
    /\ top = NoTop
    /\ BotOff
    /\ extraction = NoExtraction
    /\ check = NoCheck
    /\ alerts = NoAlerts
    /\ \E limit \in 0..MaxLimit :
          fetch = [pc |-> "top", limit |-> limit, markets |-> 0, cursor |-> FALSE,
                   asked |-> 0, responses |-> <<>>, waits |-> <<>>, before |-> 0,
                   stop |-> "none"]
    /\ loop = NoLoop

\* lines 51-64: the top of the while loop: nothing remains to fetch, or the
\* parameters of the next page are set
NextPage ==
    /\ fetch.pc = "top"
    /\ fetch' = IF fetch.limit - fetch.markets <= 0
                THEN [fetch EXCEPT !.pc = "returned",
                                   !.stop = IF @ = "none" THEN "limit" ELSE @]
                ELSE [fetch EXCEPT !.pc = "request",
                                   !.asked = PageLimit(fetch.limit, fetch.markets),
                                   !.responses = <<>>,
                                   !.waits = <<>>,
                                   !.before = fetch.markets]
    /\ UNCHANGED fetch_unchanged

\* lines 66-77: the request is answered 429: sleep, then the next attempt if
\* one is left; if none is, the page has failed (lines 89-91)
TooManyRequests ==
    /\ fetch.pc = "request"
    /\ fetch' = [fetch EXCEPT
                    !.responses = Append(@, "429"),
                    !.waits = Append(@, wait_time(Len(fetch.responses))),
                    !.pc = IF Len(fetch.responses) + 1 < MaxAttempts
                           THEN "request" ELSE "returned",
                    !.stop = IF Len(fetch.responses) + 1 < MaxAttempts
                             THEN @ ELSE "failed"]
    /\ UNCHANGED fetch_unchanged

\* lines 79, 85-91: another status that raise_for_status refuses, or a
\* request that raises: the page has failed
RequestFails ==
    /\ fetch.pc = "request"
    /\ fetch' = [fetch EXCEPT !.responses = Append(@, "error"),
                              !.pc = "returned",
                              !.stop = "failed"]
    /\ UNCHANGED fetch_unchanged

\* lines 79-83, 93-109: the page arrives with n listings, at most as many as
\* asked for, and with a cursor or without
PageArrives ==
    /\ fetch.pc = "request"
    /\ \E n \in 0..fetch.asked, cursor \in BOOLEAN :
          fetch' = [fetch EXCEPT
                       !.responses = Append(@, "ok"),
                       !.markets = @ + n,
                       !.cursor = IF n = 0 THEN @ ELSE cursor,
                       !.pc = IF n = 0 \/ ~ cursor THEN "returned" ELSE "top",
                       !.stop = IF n = 0 THEN "empty"
                                ELSE IF ~ cursor THEN "no_cursor" ELSE @]
    /\ UNCHANGED fetch_unchanged

NextKalshi ==
    \/ NextPage
    \/ TooManyRequests
    \/ RequestFails
    \/ PageArrives

SpecKalshi == InitKalshi /\ [][NextKalshi]_vars

\* the thread that runs get_all_markets keeps running
SpecKalshiFair == SpecKalshi /\ WF_vars(NextKalshi)

(***************************************************************************)
(* The scheduling loop of the bot with its three jobs (src/bot.py, main,   *)
(* lines 315-358): check_markets every check_interval minutes, the morning *)
(* and the evening digest once a day at their times.  Each job wraps its   *)
(* body in try / except Exception; the loop itself has except              *)
(* KeyboardInterrupt: break and except Exception: log and sleep.  The      *)
(* scheduler is the third-party package schedule: run_pending() collects   *)
(* the jobs whose time has come, ordered by that time, calls each in the   *)
(* calling thread, and sets the job's next run after the job has returned; *)
(* an exception that leaves a job leaves run_pending before that.          *)
(* Time is counted in the ticks of SleepMinutes.                           *)
(***************************************************************************)
Day == 4
MorningAt == 1
EveningAt == 3

JobOrder == <<"check_markets", "send_morning_digest", "send_evening_digest">>
Jobs == {JobOrder[k] : k \in 1..Len(JobOrder)}
Raised == {"Exception", "KeyboardInterrupt"}

\* every().day.at(t): the first t o'clock after now
NextAt(at, now) == CHOOSE t \in (now + 1)..(now + Day) : t % Day = at % Day

\* lines 329, 336, 339: when the scheduler will next run the job
ScheduleNextRun(j, now) ==
    IF j = "check_markets" THEN now + CheckInterval
    ELSE IF j = "send_morning_digest" THEN NextAt(MorningAt, now)
    ELSE NextAt(EveningAt, now)

\* run_pending: the jobs whose time has come, by that time, then by registration
RECURSIVE RunnableFrom(_, _)
RunnableFrom(l, t) ==
    IF t > l.clock THEN <<>>
    ELSE SelectSeq(JobOrder, LAMBDA j : l.next_run[j] = t) \o RunnableFrom(l, t + 1)

Runnable(l) == RunnableFrom(l, 0)

\* the except clause of the job (lines 119, 303, 311) lets nothing of the
\* class Exception out
JobCatches_Nothing(exc) == FALSE

JobCatches(exc) == exc = "Exception"

\* run_pending goes on with the jobs it collected, or returns and main sleeps
GoOn(l, todo) ==
    IF todo = <<>> THEN [l EXCEPT !.pc = "sleep", !.job = "none", !.todo = <<>>]
    ELSE [l EXCEPT !.pc = "in_job", !.job = Head(todo), !.todo = Tail(todo)]

\* the job function has returned: to the loop after the first check (line
\* 343), to run_pending otherwise, which sets the job's next run
JobReturned(l) ==
    IF l.pc = "initial_check"
    THEN [l EXCEPT !.pc = "run_pending", !.job = "none"]
    ELSE GoOn([l EXCEPT !.next_run[l.job] = ScheduleNextRun(l.job, l.clock)], l.todo)

\* an exception has left the job function: outside the loop it ends main;
\* inside, lines 353-358: KeyboardInterrupt breaks, anything else is logged
\* and the loop sleeps
Escaped(l, exc) ==
    IF l.pc = "initial_check" \/ exc = "KeyboardInterrupt"
    THEN [l EXCEPT !.pc = "stopped", !.job = "none", !.todo = <<>>,
                   !.interrupted = (exc = "KeyboardInterrupt")]
    ELSE [l EXCEPT !.pc = "sleep", !.job = "none", !.todo = <<>>]

loop_unchanged == <<cluster_vars, pairing, top, bot_vars, extraction, check, alerts, fetch>>

\* lines 325-343: the jobs are registered and main calls check_markets itself
InitLoop ==
    /\ ClusteringIdle
    /\ pairing = NoPairing
    /\ top = NoTop
    /\ BotOff
    /\ extraction = NoExtraction
    /\ check = NoCheck
    /\ alerts = NoAlerts
    /\ fetch = NoFetch
    /\ loop = [pc |-> "initial_check", clock |-> 0,
               next_run |-> [j \in Jobs |-> ScheduleNextRun(j, 0)],
               todo |-> <<>>, job |-> "check_markets",
               failed |-> FALSE, interrupted |-> FALSE]

\* a tick passes while a job is under way
JobTakesTime ==
    /\ loop.pc \in {"initial_check", "in_job"}
    /\ loop.clock < MaxClock
    /\ loop' = [loop EXCEPT !.clock = @ + SleepMinutes]
    /\ UNCHANGED loop_unchanged

\* the body of the job runs to its end
JobReturns ==
    /\ loop.pc \in {"initial_check", "in_job"}
    /\ loop' = JobReturned(loop)
    /\ UNCHANGED loop_unchanged

\* something is raised inside the body of the job
JobRaises ==
    /\ loop.pc \in {"initial_check", "in_job"}
    /\ \E exc \in Raised :
          loop' = IF JobCatches(exc)
                  THEN JobReturned([loop EXCEPT !.failed = TRUE])
                  ELSE Escaped(loop, exc)
    /\ UNCHANGED loop_unchanged

\* line 351: schedule.run_pending()
RunPending ==
    /\ loop.pc = "run_pending"
    /\ loop' = GoOn(loop, Runnable(loop))
    /\ UNCHANGED loop_unchanged

\* lines 352, 358: time.sleep(60), then the loop goes round
SleepAMinute ==
    /\ loop.pc = "sleep"
    /\ loop' = [loop EXCEPT !.pc = "run_pending",
                            !.clock = IF @ < MaxClock THEN @ + SleepMinutes ELSE @]
    /\ UNCHANGED loop_unchanged

\* lines 353-355: Ctrl+C while main sleeps or looks for jobs
KeyboardInterrupt ==
    /\ loop.pc \in {"run_pending", "sleep"}
    /\ loop' = [loop EXCEPT !.pc = "stopped", !.interrupted = TRUE]
    /\ UNCHANGED loop_unchanged

LoopRuns ==
    \/ JobReturns
    \/ JobRaises
    \/ RunPending
    \/ SleepAMinute

NextLoop ==
    \/ JobTakesTime
    \/ LoopRuns
    \/ KeyboardInterrupt

SpecLoop == InitLoop /\ [][NextLoop]_vars

\* main is one thread that is never held up for ever: a job ends, run_pending
\* returns, a sleep ends
SpecLoopFair == SpecLoop /\ WF_vars(LoopRuns)

(***************************************************************************)
(* The vocabulary of the properties                                        *)
(***************************************************************************)
\* cluster_markets has returned
Returned == pc = "done"

\* the clusters returned, in order
Result == ClustersAt(merged_clusters)

\* the positions of the returned list, and the clusters emitted so far
Positions == 1..Len(merged_clusters)
Emitted == SeqRange(merged_clusters)

\* the listings of a cluster
Members(c) == SeqRange(all_markets(c))

\* the groups of Step A, and the cluster Step B makes of group g
Groups == 1..Len(event_groups)
PhaseB(g) == MakeCluster(event_groups[g])

PlatformOf(c) == markets[c.primary_market].platform

\* both clusters of Step B have all their listings in one returned cluster
TogetherInResult(g, h) ==
    \E k \in Positions :
        Members(PhaseB(g)) \cup Members(PhaseB(h)) \subseteq Members(Result[k])

SharedKeys(c1, c2) ==
    SeqRange(generate_cluster_keys(c1)) \cap SeqRange(generate_cluster_keys(c2))

\* the word sets have a Jaccard similarity below 0.35 (0 if both are empty)
WordsBelowThreshold(words1, words2) ==
    Cardinality(words1 \cap words2) * 100 < 35 * Cardinality(words1 \cup words2)
        \/ words1 \cup words2 = {}

SimilarityBelowThreshold(c1, c2) ==
    WordsBelowThreshold(Lookup(SimilarityWordsTable, get_representative_text(c1)),
                        Lookup(SimilarityWordsTable, get_representative_text(c2)))

\* the position of x in a list without repetitions
PositionIn(list, x) == CHOOSE p \in 1..Len(list) : list[p] = x

(***************************************************************************)
(* C1                                                                      *)
(***************************************************************************)
\* the places (cluster k of the result, position j of its members) of listing i
Occurrences(i) ==
    UNION {{<<k, j>> : j \in {n \in 1..market_count(Result[k]) :
                                all_markets(Result[k])[n] = i}} : k \in Positions}

\* C1: when cluster_markets has returned, every listing of the input is a
\* member (primary or related) of exactly one returned cluster, at exactly one
\* position of its member list: none is lost, none is in two clusters, none is
\* twice in one cluster.
C1_Partition ==
    Returned => \A i \in 1..Len(markets) : Cardinality(Occurrences(i)) = 1

\* three listings have been returned in two clusters, one of them a seed that
\* has absorbed a cluster
C1_Witness ==
    /\ Returned
    /\ Len(markets) >= 3
    /\ Len(merged_clusters) >= 2
    /\ \E o \in Groups : o \notin Emitted

(***************************************************************************)
(* C2                                                                      *)
(***************************************************************************)
\* C2: in every returned cluster, merged or not, the volume of the primary is
\* at least the volume of every related listing.
C2_PrimaryHasTopVolume ==
    Returned =>
        \A k \in Positions : \A j \in 1..Len(Result[k].related_markets) :
            markets[Result[k].primary_market].volume
                >= markets[Result[k].related_markets[j]].volume

(***************************************************************************)
(* C3                                                                      *)
(***************************************************************************)
\* C3: two listings of the input with the same non-empty event id are members
\* of the same returned cluster, in whatever order the input has them.
C3_SameEventIdSameCluster ==
    Returned =>
        \A i, j \in 1..Len(markets) :
            (markets[i].event_id # "" /\ markets[i].event_id = markets[j].event_id)
                => \E k \in Positions : {i, j} \subseteq Members(Result[k])

\* two listings with one event id have been absorbed together by a seed with
\* another event id
C3_Witness ==
    /\ Returned
    /\ \E k \in Positions : \E i, j \in SeqRange(Result[k].related_markets) :
          /\ i # j
          /\ markets[i].event_id # ""
          /\ markets[i].event_id = markets[j].event_id
          /\ markets[i].event_id # Result[k].event_id

(***************************************************************************)
(* C4                                                                      *)
(***************************************************************************)
\* C4: no returned cluster holds two distinct clusters of Step B that are on
\* the same platform, whether they would meet as seed and candidate or as two
\* candidates of one seed.
C4_NoTwoOfOnePlatform ==
    Returned =>
        \A g, h \in Groups :
            (g # h /\ PlatformOf(PhaseB(g)) = PlatformOf(PhaseB(h)))
                => ~ TogetherInResult(g, h)

(***************************************************************************)
(* C5                                                                      *)
(***************************************************************************)
\* two clusters of Step B on different platforms that share a key and whose
\* word sets have a Jaccard similarity below 0.35
WeakPair(g, h) ==
    /\ PlatformOf(PhaseB(g)) # PlatformOf(PhaseB(h))
    /\ SharedKeys(PhaseB(g), PhaseB(h)) # {}
    /\ SimilarityBelowThreshold(PhaseB(g), PhaseB(h))

\* C5: two clusters of Step B on different platforms that share a key but
\* whose Jaccard word-set similarity is below 0.35 are never in the same
\* returned cluster.
C5_BelowThresholdApart ==
    Returned => \A g, h \in Groups : WeakPair(g, h) => ~ TogetherInResult(g, h)

\* such a pair was in the input, and Step D has gone over both
C5_Witness ==
    /\ Returned
    /\ \E g, h \in Groups : WeakPair(g, h) /\ {g, h} \subseteq Emitted

(***************************************************************************)
(* C6                                                                      *)
(***************************************************************************)
\* the cluster has been absorbed by a seed
Absorbed(o) == initial_clusters[o].event_id \in merged_ids /\ o \notin Emitted

\* Step D has not come to the cluster yet
Pending(o) == initial_clusters[o].event_id \notin merged_ids

\* the emitted clusters that hold a listing of the cluster Step B made of group o
Holders(o) == {k \in Emitted : Members(PhaseB(o)) \cap Members(initial_clusters[k]) # {}}

\* C6: during and after Step D, a cluster of Step B that a seed has absorbed
\* has all its listings (primary and related) among the related of one emitted
\* seed, and is not emitted itself; a cluster not absorbed so far has the
\* membership Step B gave it and none of its listings is in an emitted cluster;
\* the listings of one cluster of Step B are never in two emitted clusters.
C6_AtomicMerge ==
    pc \in {"D", "done"} =>
        \A o \in 1..Len(initial_clusters) :
            /\ Absorbed(o) =>
                  \E k \in Emitted :
                      Members(PhaseB(o)) \subseteq SeqRange(initial_clusters[k].related_markets)
            /\ Pending(o) => initial_clusters[o] = PhaseB(o) /\ Holders(o) = {}
            /\ Cardinality(Holders(o)) <= 1

\* a seed has absorbed a cluster that had related listings
C6_Witness ==
    /\ Returned
    /\ \E o \in Groups : Absorbed(o) /\ PhaseB(o).related_markets # <<>>

(***************************************************************************)
(* C7                                                                      *)
(***************************************************************************)
\* C7: after Step A, a listing with no event id is the only member of its
\* group, and the key of the group is its platform and its id.
C7_NoEventIdAlone ==
    pc # "A" =>
        \A i \in 1..Len(markets) :
            markets[i].event_id = "" =>
                \E g \in Groups :
                    /\ event_groups[g].key = markets[i].platform \o "_" \o markets[i].id
                    /\ event_groups[g].members = <<i>>

(***************************************************************************)
(* C8                                                                      *)
(***************************************************************************)
\* C8: the returned list is in non-increasing order of total_volume, the
\* total_volume of a cluster being the one it has after the merges of Step D.
C8_SortedByTotalVolume ==
    Returned =>
        \A k \in Positions :
            k < Len(merged_clusters)
                => total_volume(Result[k]) >= total_volume(Result[k + 1])

\* two clusters have been returned in the opposite of the order Step D went
\* over them: a merge has made the later seed the larger one
C8_Witness ==
    /\ Returned
    /\ \E k, n \in Positions :
          /\ k < n
          /\ PositionIn(sorted_clusters, merged_clusters[k])
                > PositionIn(sorted_clusters, merged_clusters[n])

(***************************************************************************)
(* C9                                                                      *)
(***************************************************************************)
ZeroKeys(g) == generate_cluster_keys(PhaseB(g)) = <<>>

\* C9: a cluster of Step B whose representative text has no keys is returned
\* as Step B made it, with the members of its group of Step A and no others,
\* and none of its listings is in another returned cluster.
C9_ZeroKeysStandalone ==
    Returned =>
        \A g \in Groups :
            ZeroKeys(g) =>
                /\ g \in Emitted
                /\ initial_clusters[g] = PhaseB(g)
                /\ Members(initial_clusters[g]) = SeqRange(event_groups[g].members)
                /\ Holders(g) = {g}

\* a cluster without keys has been returned next to a cluster of the other
\* platform whose word set is similar to its own
C9_Witness ==
    /\ Returned
    /\ \E g, h \in Groups :
          /\ ZeroKeys(g)
          /\ PlatformOf(PhaseB(g)) # PlatformOf(PhaseB(h))
          /\ ~ SimilarityBelowThreshold(PhaseB(g), PhaseB(h))
          /\ {g, h} \subseteq Emitted

(***************************************************************************)
(* C10                                                                     *)
(***************************************************************************)
\* C10: whenever cluster_markets returns from an invocation whose argument is
\* the argument of the first invocation on the engine, the clusters returned
\* are those of the first invocation: same members, same primaries, same
\* order of the related, same order of the clusters.
C10_SameInputSameResult ==
    (Returned /\ markets = first_call.markets) => Result = first_call.result

\* the argument of the first invocation has been clustered again, after an
\* invocation with another argument, and a merge took place
C10_Witness ==
    /\ Returned
    /\ first_call.others
    /\ markets = first_call.markets
    /\ \E o \in Groups : o \notin Emitted

(***************************************************************************)
(* C11                                                                     *)
(***************************************************************************)
\* the batch: A1 (kalshi, ev1, 10000), P1 (polymarket, no event id, 8000),
\* A2 (kalshi, ev2, 500000)
ScenarioA == <<ScenarioListing("A1"), ScenarioListing("P1"), ScenarioListing("A2")>>

\* the ids of the listings of a cluster
MemberIds(c) == {markets[i].id : i \in Members(c)}

\* C11: for the batch A1, P1, A2 cluster_markets returns exactly two clusters:
\* one with the members A1 and P1, the primary A1, the platforms kalshi and
\* polymarket and the total volume 18000, and one with the only member A2 and
\* the total volume 500000.
C11_ScenarioA ==
    (Returned /\ markets = ScenarioA) =>
        /\ Len(merged_clusters) = 2
        /\ \E k \in Positions :
              /\ MemberIds(Result[k]) = {"A1", "P1"}
              /\ markets[Result[k].primary_market].id = "A1"
              /\ Result[k].related_markets = <<2>>
              /\ Result[k].platforms = {"kalshi", "polymarket"}
              /\ platform_spread(Result[k]) = {"kalshi", "polymarket"}
              /\ total_volume(Result[k]) = 18000
        /\ \E k \in Positions :
              /\ MemberIds(Result[k]) = {"A2"}
              /\ Result[k].related_markets = <<>>
              /\ total_volume(Result[k]) = 500000

\* cluster_markets has returned from the batch A1, P1, A2
C11_Witness == Returned /\ markets = ScenarioA /\ merged_clusters # <<>>

(***************************************************************************)
(* C12                                                                     *)
(***************************************************************************)
\* C12: when Step B is done there is one cluster per group of Step A, in the
\* order of the groups; its members are the members of the group, its primary
\* is a member whose volume no member exceeds, its related are in
\* non-increasing order of volume, and its total_volume is the sum of the
\* volumes of the members of the group, in whatever order the input has them.
C12_PhaseBCluster ==
    pc = "C" =>
        /\ Len(initial_clusters) = Len(event_groups)
        /\ \A g \in Groups :
              /\ Members(initial_clusters[g]) = SeqRange(event_groups[g].members)
              /\ market_count(initial_clusters[g]) = Len(event_groups[g].members)
              /\ \A i \in SeqRange(event_groups[g].members) :
                    markets[initial_clusters[g].primary_market].volume >= markets[i].volume
              /\ \A j \in 1..Len(initial_clusters[g].related_markets) :
                    j > 1 => markets[initial_clusters[g].related_markets[j - 1]].volume
                                >= markets[initial_clusters[g].related_markets[j]].volume
              /\ total_volume(initial_clusters[g]) = SumVolumes(event_groups[g].members)

\* Step B has made a cluster of a group of two whose first listing, in input
\* order, has the smaller volume: volumes 1 and 2, total 3, the primary the
\* second listing
C12_Witness ==
    /\ pc = "C"
    /\ \E g \in Groups :
          /\ Len(event_groups[g].members) = 2
          /\ markets[event_groups[g].members[1]].volume = 1
          /\ markets[event_groups[g].members[2]].volume = 2
          /\ markets[event_groups[g].members[1]].platform = "kalshi"
          /\ markets[event_groups[g].members[2]].platform = "kalshi"
          /\ initial_clusters[g].primary_market = event_groups[g].members[2]
          /\ total_volume(initial_clusters[g]) = 3

(***************************************************************************)
(* C13                                                                     *)
(***************************************************************************)
\* the platforms of the listings of a cluster
MemberPlatforms(c) == {markets[i].platform : i \in Members(c)}

\* C13: in every returned cluster, whether it has absorbed clusters or not,
\* the stored set of platforms is the set of the platforms of its members,
\* which is what platform_spread computes.
C13_PlatformsOfMembers ==
    Returned =>
        \A k \in Positions :
            /\ Result[k].platforms = MemberPlatforms(Result[k])
            /\ Result[k].platforms = platform_spread(Result[k])

(***************************************************************************)
(* C14                                                                     *)
(***************************************************************************)
\* vs_ and the two tokens, lower-cased, in lexicographic order
ExpectedPairingKey(x, y) ==
    IF StrLess(Lower(y), Lower(x))
    THEN "vs_" \o Lower(y) \o "_" \o Lower(x)
    ELSE "vs_" \o Lower(x) \o "_" \o Lower(y)

\* the year pattern removes the token from a text
IsYear(token) == YEAR_PATTERN_sub(token) # token

\* C14 as stated: for any two tokens that are not stop words, a text with
\* "X vs Y" and a text with "Y vs X" (or with vs., versus, v, v., @) both give
\* the one pairing key vs_ followed by the two lower-cased tokens in
\* lexicographic order.
C14_PairingKeyCommutes ==
    (pairing.computed /\ Lower(pairing.x) \notin STOP_WORDS
                      /\ Lower(pairing.y) \notin STOP_WORDS)
        => /\ pairing.keys1 = <<ExpectedPairingKey(pairing.x, pairing.y)>>
           /\ pairing.keys2 = pairing.keys1

\* C14, amended: the same for any two tokens that are neither stop words nor
\* years of the form 20dd, which are removed from the text before the pattern
\* is applied.
C14_PairingKeyCommutesNoYears ==
    (pairing.computed /\ Lower(pairing.x) \notin STOP_WORDS
                      /\ Lower(pairing.y) \notin STOP_WORDS
                      /\ ~ IsYear(pairing.x) /\ ~ IsYear(pairing.y))
        => /\ pairing.keys1 = <<ExpectedPairingKey(pairing.x, pairing.y)>>
           /\ pairing.keys2 = pairing.keys1

\* the keys of "Zeta vs heat" and of "heat @ Zeta" have been computed: the
\* tokens are in the opposite order in the texts, and their order as written
\* (Z before h) is not their order once lower-cased
C14_Witness ==
    /\ pairing.computed
    /\ pairing.text1 = "Zeta vs heat"
    /\ pairing.text2 = "heat @ Zeta"
    /\ pairing.keys1 = <<"vs_heat_zeta">>

(***************************************************************************)
(* C15                                                                     *)
(***************************************************************************)
\* C15: no step of cluster_markets changes a field (platform, id, event id,
\* event title, title, subtitle, volume) of a listing of the input, nor the
\* input sequence: from the call to the return the listings are what they
\* were.
C15_ListingsUntouched == [][markets' = markets]_vars

\* cluster_markets has returned after all its writes: a seed has absorbed a
\* cluster and its related listings have been re-sorted out of input order
C15_Witness ==
    /\ Returned
    /\ \E o \in Groups : Absorbed(o)
    /\ \E k \in Positions :
          /\ Len(Result[k].related_markets) >= 2
          /\ Result[k].related_markets[1] > Result[k].related_markets[2]

(***************************************************************************)
(* C16                                                                     *)
(***************************************************************************)
\* the listing has an empty title and no event id, event title or subtitle
Bare(m) == m.title = "" /\ m.event_id = "" /\ m.event_title = "" /\ m.subtitle = ""

\* C16: a call whose batch has a listing with an empty title and no event id,
\* event title or subtitle returns; that listing is the only member of a
\* returned cluster, and every other listing of the batch is a member of a
\* returned cluster.
C16_BareListingSingleton ==
    Returned =>
        \A i \in 1..Len(markets) :
            Bare(markets[i]) =>
                /\ \E k \in Positions : Members(Result[k]) = {i}
                /\ \A j \in 1..Len(markets) : Occurrences(j) # {}

(***************************************************************************)
(* C17                                                                     *)
(***************************************************************************)
\* C17: get_top_markets(n), n >= 0, returns min(n, market_count) distinct
\* members of the cluster, in non-increasing order of volume, and no member
\* that is left out has a larger volume than a member that is returned; the
\* primary is treated as any other member.
C17_TopByVolume ==
    top.called =>
        LET c == Result[top.cluster]
            r == top.result
            count == market_count(c)
        IN  /\ Len(r) = IF top.n < count THEN top.n ELSE count
            /\ SeqRange(r) \subseteq Members(c)
            /\ \A p, q \in 1..Len(r) :
                  p < q => r[p] # r[q] /\ markets[r[p]].volume >= markets[r[q]].volume
            /\ \A out \in Members(c) \ SeqRange(r) : \A in \in SeqRange(r) :
                  markets[out].volume <= markets[in].volume

\* a cluster of three whose primary has less volume than a related listing
\* was asked for fewer listings than it has, and the primary is not the first
C17_Witness ==
    /\ top.called
    /\ market_count(Result[top.cluster]) = 3
    /\ top.n \in 1..2
    /\ top.result[1] # Result[top.cluster].primary_market
    /\ \E i \in SeqRange(Result[top.cluster].related_markets) :
          markets[i].volume > markets[Result[top.cluster].primary_market].volume

(***************************************************************************)
(* C18                                                                     *)
(***************************************************************************)
\* C18: at most one market check is under way at any time, and no check is
\* started by a trigger that became due while a check was under way: such a
\* trigger is dropped, not kept for when the check has finished.
C18_OneCheckNoReplay == executing <= 1 /\ ~replayed

(***************************************************************************)
(* C19                                                                     *)
(***************************************************************************)
\* the other clusters the seed is to absorb: not consumed so far, sharing a
\* key with the seed, their primary on another platform than the primary of
\* the seed, and a Jaccard similarity with the seed of 0.35 or more
ToAbsorb(seed) ==
    {o \in Groups \ {seed} :
        /\ Pending(o)
        /\ SharedKeys(initial_clusters[seed], initial_clusters[o]) # {}
        /\ PlatformOf(initial_clusters[o]) # PlatformOf(initial_clusters[seed])
        /\ ~SimilarityBelowThreshold(initial_clusters[seed], initial_clusters[o])}

\* C19: the step of Phase D that processes a seed puts into the seed the
\* listings of exactly the other clusters that are unconsumed, share a key
\* with the seed, have their primary on another platform and a similarity of
\* 0.35 or more with the seed, and marks exactly those and the seed consumed.
C19_AbsorbsExactlyTheMatches ==
    [][(pc = "D" /\ di <= Len(sorted_clusters) /\ di' = di + 1
            /\ Pending(sorted_clusters[di]))
        => /\ {o \in Groups \ {sorted_clusters[di]} :
                  Members(initial_clusters[o])
                      \subseteq Members(initial_clusters'[sorted_clusters[di]])}
                = ToAbsorb(sorted_clusters[di])
           /\ {o \in Groups : initial_clusters[o].event_id \in merged_ids' \ merged_ids}
                = ToAbsorb(sorted_clusters[di]) \cup {sorted_clusters[di]}]_vars

\* a seed has absorbed a cluster and has left alone a cluster that shares a
\* key with it, which was emitted as a seed after it
C19_Witness ==
    /\ Returned
    /\ \E seed, h \in Emitted : \E o \in Groups :
          /\ seed # h
          /\ Absorbed(o)
          /\ Members(PhaseB(o)) \subseteq Members(initial_clusters[seed])
          /\ SharedKeys(PhaseB(seed), PhaseB(h)) # {}

(***************************************************************************)
(* C20                                                                     *)
(***************************************************************************)
\* C20: during Step D, once a seed has been processed and has absorbed a
\* cluster b, no cluster is left unconsumed that is on another platform than
\* the seed, shares a key with b and has a similarity of 0.35 or more with
\* the seed: the seed has absorbed it too, whether or not it shares a key
\* with the seed itself.
C20_SeedInheritsKeys ==
    pc = "D" =>
        \A seed \in Emitted : \A b \in Groups \ {seed} :
            Members(PhaseB(b)) \subseteq Members(initial_clusters[seed]) =>
                \A c \in Groups \ {seed, b} :
                    ~ /\ Pending(c)
                      /\ PlatformOf(PhaseB(c)) # PlatformOf(PhaseB(seed))
                      /\ SharedKeys(PhaseB(b), PhaseB(c)) # {}
                      /\ ~SimilarityBelowThreshold(PhaseB(seed), PhaseB(c))

(***************************************************************************)
(* C21                                                                     *)
(***************************************************************************)
\* the total volume of the cluster Step B makes of group g
PhaseBTotal(g) == total_volume(PhaseB(g))

\* the first position of the input with a listing of group g
FirstAppearance(g) ==
    CHOOSE i \in SeqRange(event_groups[g].members) :
        \A j \in SeqRange(event_groups[g].members) : i <= j

\* group g comes before group h as a seed
SeedBefore(g, h) ==
    \/ PhaseBTotal(g) > PhaseBTotal(h)
    \/ PhaseBTotal(g) = PhaseBTotal(h) /\ FirstAppearance(g) < FirstAppearance(h)

\* C21: during Step D the clusters are taken as seeds in non-increasing order
\* of their Phase-B total volume, ties in the order their groups first appear
\* in the input; the seeds emitted so far are in that order; a cluster that
\* was absorbed has a Phase-B total volume not above that of the seed holding
\* it; a seed that has absorbed keeps its event id, its event title and its
\* primary (its title is the event title, else the title of the primary).
C21_SeedOrder ==
    pc = "D" =>
        /\ \A p, q \in 1..Len(sorted_clusters) :
              p < q => SeedBefore(sorted_clusters[p], sorted_clusters[q])
        /\ \A p, q \in Positions :
              p < q => SeedBefore(merged_clusters[p], merged_clusters[q])
        /\ \A seed \in Emitted :
              /\ initial_clusters[seed].event_id = PhaseB(seed).event_id
              /\ initial_clusters[seed].event_title = PhaseB(seed).event_title
              /\ initial_clusters[seed].primary_market = PhaseB(seed).primary_market
              /\ \A o \in Groups \ {seed} :
                    Members(PhaseB(o)) \subseteq Members(initial_clusters[seed])
                        => PhaseBTotal(o) <= PhaseBTotal(seed)

\* Step D is over: a seed that is not the first group of the input has
\* absorbed the cluster of an earlier group with less volume, and another
\* cluster has the same Phase-B total volume as the seed
C21_Witness ==
    /\ pc = "D"
    /\ di > Len(sorted_clusters)
    /\ \E seed \in Emitted : \E o, t \in Groups \ {seed} :
          /\ o < seed
          /\ o # t
          /\ Members(PhaseB(o)) \subseteq Members(initial_clusters[seed])
          /\ PhaseBTotal(o) < PhaseBTotal(seed)
          /\ PhaseBTotal(t) = PhaseBTotal(seed)

(***************************************************************************)
(* C22                                                                     *)
(***************************************************************************)
\* C22: after Step A, the listings of one group are all of one platform:
\* listings of different platforms are in different groups, also when their
\* event ids are the same string.
C22_GroupsOfOnePlatform ==
    pc # "A" =>
        \A g \in Groups : \A i, j \in SeqRange(event_groups[g].members) :
            markets[i].platform = markets[j].platform

(***************************************************************************)
(* C23                                                                     *)
(***************************************************************************)
\* the list of listings is in non-increasing order of volume
NonIncreasingVolume(list) ==
    \A p, q \in 1..Len(list) : p < q => markets[list[p]].volume >= markets[list[q]].volume

\* C23: from the end of Step B on, through every absorption of Step D and in
\* the result, the related list of every cluster is in non-increasing order
\* of volume.
C23_RelatedSorted ==
    pc \in {"C", "D", "done"} =>
        \A c \in 1..Len(initial_clusters) :
            NonIncreasingVolume(initial_clusters[c].related_markets)

\* a seed that had a related listing after Step B has absorbed a listing of
\* larger volume, which now stands before it in the related list
C23_Witness ==
    /\ pc = "D"
    /\ \E seed \in Emitted :
          \E p, q \in 1..Len(initial_clusters[seed].related_markets) :
              /\ p < q
              /\ initial_clusters[seed].related_markets[q] \in Members(PhaseB(seed))
              /\ initial_clusters[seed].related_markets[p] \notin Members(PhaseB(seed))
              /\ markets[initial_clusters[seed].related_markets[p]].volume
                    > markets[initial_clusters[seed].related_markets[q]].volume

(***************************************************************************)
(* C24                                                                     *)
(***************************************************************************)
\* the title of the primary, then its subtitle if it has one
TitleAndSubtitle(c) ==
    <<markets[c.primary_market].title>>
        \o (IF markets[c.primary_market].subtitle # ""
            THEN <<markets[c.primary_market].subtitle>> ELSE <<>>)

\* C24: from the end of Step B on, the representative text of a cluster is
\* the event title of one of its members, the title of the primary and the
\* subtitle of the primary if any, joined by blanks, when a member has an
\* event title; when none has, it is the title of the primary and its
\* subtitle if any, with nothing before them.
C24_RepresentativeText ==
    pc \in {"C", "D", "done"} =>
        \A c \in 1..Len(initial_clusters) :
            IF \E i \in Members(PhaseB(c)) : markets[i].event_title # ""
            THEN \E i \in Members(PhaseB(c)) :
                    /\ markets[i].event_title # ""
                    /\ get_representative_text(initial_clusters[c])
                         = Join(" ", <<markets[i].event_title>>
                                       \o TitleAndSubtitle(initial_clusters[c]))
            ELSE get_representative_text(initial_clusters[c])
                    = Join(" ", TitleAndSubtitle(initial_clusters[c]))

(***************************************************************************)
(* C25                                                                     *)
(***************************************************************************)
\* what is left of a word of the text when the keys are made: "" for a stop
\* word and for a year the year pattern removes, else the word in lower case
KeyForm(token) ==
    CASE token = "Lakers" -> "lakers"
      [] token = "Heat" -> "heat"
      [] token \in {"the", "2024"} -> ""
      [] OTHER -> token

\* the stop-filtered tokens of the text, in text order
RECURSIVE StopFiltered(_)
StopFiltered(tokens) ==
    IF tokens = <<>> THEN <<>>
    ELSE (IF KeyForm(Head(tokens)) = "" THEN <<>> ELSE <<KeyForm(Head(tokens))>>)
         \o StopFiltered(Tail(tokens))

RECURSIVE OfLengthFour(_)
OfLengthFour(list) ==
    IF list = <<>> THEN <<>>
    ELSE (IF Len(Head(list)) >= 4 THEN <<Head(list)>> ELSE <<>>) \o OfLengthFour(Tail(list))

\* the fallback words key is emitted only under the three conditions
FallbackOnlyWhen ==
    (extraction.computed /\ extraction.fallback # <<>>) =>
        /\ extraction.proper = <<>>
        /\ Len(StopFiltered(extraction.tokens)) >= 3
        /\ Len(OfLengthFour(StopFiltered(extraction.tokens))) >= 2

C26_ComboNeedsTwoDistinct ==
    (extraction.computed /\ extraction.combo # <<>>) =>
        Cardinality(SeqRange(extraction.proper_nouns)) >= 2

(***************************************************************************)
(* C27                                                                     *)
(***************************************************************************)
YearTokens == {"2024", "1999"}

HasYear(str) == \E i \in 1..(Len(str) - 3) : SubSeq(str, i, i + 3) \in YearTokens

\* C27: every 4-digit year of the text, 1999 as well as 2024, is removed
\* before the keys and the similarity words are extracted: no key has a year
\* in it and no similarity word is a year.
C27_NoYearInKeysOrWords ==
    extraction.computed =>
        /\ \A k \in 1..Len(extraction.keys) : ~HasYear(extraction.keys[k])
        /\ extraction.words \cap YearTokens = {}

(***************************************************************************)
(* C28                                                                     *)
(***************************************************************************)
\* the keys under which a cluster is found in an index
IndexedUnder(index, c) == {k \in DOMAIN index : c \in SeqRange(index[k])}

\* the index made by the loop of Step C in the order of initial_clusters
SequentialIndex == IndexUpTo(Len(initial_clusters))

C29_VolumesRestored ==
    check.pc = "returned" =>
        \A i \in 1..Len(markets) : markets[i].volume = check.before[i]

(***************************************************************************)
(* C30                                                                     *)
(***************************************************************************)
\* the clusters of a result over a batch, each as the id of its primary and
\* the ids of its members
ShapeOf(result, batch) ==
    {<<batch[result[k].primary_market].id,
       {batch[i].id : i \in SeqRange(all_markets(result[k]))}>> : k \in 1..Len(result)}

DistinctVolumes ==
    \A i, j \in 1..Len(markets) : i # j => markets[i].volume # markets[j].volume

DistinctPhaseBTotals ==
    \A g, h \in Groups : g # h => PhaseBTotal(g) # PhaseBTotal(h)

\* C30: when the volumes of the listings are pairwise distinct and the
\* Phase-B totals of the clusters are pairwise distinct, the result on a
\* permutation of a batch puts the same listings together, with the same
\* primaries, as the result on the batch.
C30_PermutationInvariant ==
    (Returned /\ DistinctVolumes /\ DistinctPhaseBTotals) =>
        ShapeOf(Result, markets) = ShapeOf(first_call.result, first_call.markets)

\* three listings were clustered again in another order, and a seed has
\* absorbed a cluster that comes before it in this order
C30_Witness ==
    /\ Returned
    /\ first_call.others
    /\ markets # first_call.markets
    /\ Len(markets) = 3
    /\ DistinctVolumes
    /\ DistinctPhaseBTotals
    /\ \E seed \in Emitted : \E o \in Groups :
          /\ o < seed
          /\ Absorbed(o)
          /\ Members(PhaseB(o)) \subseteq Members(initial_clusters[seed])

(***************************************************************************)
(* C31                                                                     *)
(***************************************************************************)
RealTimeWithin(log, from, to) ==
    {k \in DOMAIN log : /\ log[k].alert_type = "real_time"
                        /\ from <= log[k].sent_at
                        /\ log[k].sent_at <= to}

\* C31: whatever send_urgent_event_alerts is called with and whenever, no
\* window of one hour holds more real-time rows of the alert log than
\* max_alerts_per_hour.
C31_RateLimit ==
    \A t \in 0..MaxHours :
        Cardinality(RealTimeWithin(alerts.log, t - RateHours, t)) <= max_alerts_per_hour

\* the loop was left because the hour was full, with an event still to go
C31_Witness ==
    /\ alerts.pc = "over"
    /\ ~ alerts.raised
    /\ alerts.i <= Len(alerts.hot_events)
    /\ alerts.outcome[alerts.i - 1] = "delivered"
    /\ Cardinality(RealTimeWithin(alerts.log, alerts.now - RateHours, alerts.now))
          = max_alerts_per_hour

(***************************************************************************)
(* C32                                                                     *)
(***************************************************************************)
\* C32: when send_urgent_event_alerts has returned, each event of the batch
\* was delivered and logged, or skipped as alerted in the last 6 hours, or put
\* in the digest queue.
C32_EveryEventAccounted ==
    (alerts.pc = "over" /\ ~ alerts.raised) =>
        \A k \in 1..Len(alerts.hot_events) :
            alerts.outcome[k] \in {"delivered", "skipped", "queued"}

C35_AtMostLimit ==
    (fetch.pc = "returned") => fetch.all_markets <= fetch.limit

(***************************************************************************)
(* C36                                                                     *)
(***************************************************************************)
\* a request is issued from the states where the loop of attempts is at a
\* request, and from no other
AboutToRequest == fetch.pc = "request"

\* C36: with responses no longer than asked for, KalshiClient.get_all_markets
\* returns in the end, it never holds more than limit listings, and it is not
\* about to issue a request once it holds limit listings, once a page came
\* back empty, or once a response had no cursor.
C36_TerminatesWithinLimit ==
    /\ <>(fetch.pc = "returned")
    /\ [](fetch.markets <= fetch.limit)
    /\ []((\/ fetch.markets >= fetch.limit
           \/ fetch.stop \in {"empty", "no_cursor"}) => ~ AboutToRequest)

\* the limit was reached on the third page
C36_Witness ==
    /\ fetch.pc = "returned"
    /\ fetch.stop = "limit"
    /\ fetch.limit > batch_size
    /\ fetch.markets = fetch.limit
    /\ fetch.before = fetch.limit - 1
    /\ fetch.asked = 1

(***************************************************************************)
(* C37                                                                     *)
(***************************************************************************)
\* the waits that follow the first n answers 429 for one page
BackoffWaits == <<1, 2, 4, 8, 16>>

\* C37: a page is requested at most 5 times; every request but the last one
\* was answered 429, and was followed by a wait of 1, 2, 4, 8, 16 seconds in
\* this order; and when a page has failed (5 answers 429, or another request
\* error) the function has returned what it held before that page.
C37_RetryOn429Only ==
    /\ Len(fetch.responses) <= MaxAttempts
    /\ \A k \in 1..(Len(fetch.responses) - 1) : fetch.responses[k] = "429"
    /\ Len(fetch.waits) = Cardinality({k \in DOMAIN fetch.responses :
                                         fetch.responses[k] = "429"})
    /\ fetch.waits = SubSeq(BackoffWaits, 1, Len(fetch.waits))
    /\ (\E k \in DOMAIN fetch.responses : fetch.responses[k] = "error")
          => (fetch.pc = "returned" /\ fetch.stop = "failed")
    /\ fetch.stop = "failed" => (fetch.pc = "returned" /\ fetch.markets = fetch.before)

\* the second page failed after five answers 429
C37_Witness ==
    /\ fetch.pc = "returned"
    /\ fetch.stop = "failed"
    /\ fetch.before > 0
    /\ fetch.markets = fetch.before
    /\ fetch.responses = <<"429", "429", "429", "429", "429">>
    /\ fetch.waits = BackoffWaits

(***************************************************************************)
(* C38: an exception raised inside a market check or a digest job never    *)
(* ends the scheduling loop (only Ctrl+C stops it), and once a job has     *)
(* failed, every job whose time has come is still run, unless the bot is   *)
(* stopped by Ctrl+C first.                                                *)
(***************************************************************************)
DueJob(j) == loop.pc # "off" /\ loop.failed /\ loop.clock >= loop.next_run[j]
JobRunning(j) == loop.pc = "in_job" /\ loop.job = j
LoopStopped == loop.pc = "stopped"

C38_LoopSurvivesExceptions ==
    /\ [](LoopStopped => loop.interrupted)
    /\ \A j \in Jobs : DueJob(j) ~> (JobRunning(j) \/ LoopStopped)

\* a digest is under way after a market check has failed and the loop has slept
C38_Witness ==
    /\ loop.pc = "in_job"
    /\ loop.job = "send_evening_digest"
    /\ loop.failed
    /\ loop.next_run["check_markets"] > CheckInterval

=============================================================================
